---- MODULE Spec2Model ----
(***************************************************************************)
(* Model of gammapy.modeling.parameter: the value/factor/scale machinery   *)
(* of Parameter and the Parameters container.                              *)
(*                                                                         *)
(* Numbers.  The code computes with floats.  The model computes exactly,   *)
(* on the numbers (n/d) * e^x with n, d, x integers, extended with the     *)
(* IEEE specials NaN, +Inf and -Inf.  This family is closed under          *)
(* products and quotients, and the three scale transforms (lin, log,       *)
(* sqrt) are exact on the members where their result is again a member.    *)
(* A result outside the family is the marker Unrep; an action is enabled   *)
(* only where every number it stores is a member within the bounds         *)
(* MaxNum and MaxExp.  Floating-point rounding is not modelled.            *)
(***************************************************************************)
EXTENDS Integers, Sequences, FiniteSets, TLC

\* ------------------------------------------------------------------ bounds
\* Largest numerator and denominator of a stored number.
MaxNum == 100
\* Largest |x| of the factor e^x of a stored number.
MaxExp == 1

\* ------------------------------------------------------- exact arithmetic
AbsInt(i) == IF i < 0 THEN -i ELSE i

SgnInt(i) == IF i < 0 THEN -1 ELSE IF i = 0 THEN 0 ELSE 1

RECURSIVE GCD(_, _)
GCD(a, b) == IF b = 0 THEN a ELSE GCD(b, a % b)

NaN == [k |-> "nan", n |-> 0, d |-> 1, x |-> 0]

PInf == [k |-> "pinf", n |-> 0, d |-> 1, x |-> 0]

NInf == [k |-> "ninf", n |-> 0, d |-> 1, x |-> 0]

Unrep == [k |-> "unrep", n |-> 0, d |-> 1, x |-> 0]

\* The finite number (n/d) * e^x in lowest terms, d > 0.
Mk(n, d, x) ==
    IF n = 0 THEN [k |-> "fin", n |-> 0, d |-> 1, x |-> 0]
    ELSE LET g == GCD(AbsInt(n), d)
         IN [k |-> "fin", n |-> n \div g, d |-> d \div g, x |-> x]

R(i) == Mk(i, 1, 0)

Q(n, d) == Mk(n, d, 0)

E(x) == Mk(1, 1, x)

Zero == R(0)

One == R(1)

IsFin(a) == a.k = "fin"

IsInf(a) == a.k \in {"pinf", "ninf"}

\* Sign of a number; 0 for zero and for NaN.
Sgn(a) ==
    CASE a.k = "fin" -> SgnInt(a.n)
      [] a.k = "pinf" -> 1
      [] a.k = "ninf" -> -1
      [] OTHER -> 0

Neg(a) ==
    CASE a.k = "fin" -> Mk(-a.n, a.d, a.x)
      [] a.k = "pinf" -> NInf
      [] a.k = "ninf" -> PInf
      [] OTHER -> a

Abs(a) == IF Sgn(a) < 0 THEN Neg(a) ELSE a

\* IEEE product.
Mul(a, b) ==
    IF a.k = "unrep" \/ b.k = "unrep" THEN Unrep
    ELSE IF a.k = "nan" \/ b.k = "nan" THEN NaN
    ELSE IF IsFin(a) /\ IsFin(b) THEN Mk(a.n * b.n, a.d * b.d, a.x + b.x)
    ELSE IF Sgn(a) = 0 \/ Sgn(b) = 0 THEN NaN
    ELSE IF Sgn(a) * Sgn(b) > 0 THEN PInf ELSE NInf

\* IEEE quotient: 0/0 and Inf/Inf are NaN, x/0 is an infinity.
Div(a, b) ==
    IF a.k = "unrep" \/ b.k = "unrep" THEN Unrep
    ELSE IF a.k = "nan" \/ b.k = "nan" THEN NaN
    ELSE IF IsFin(a) /\ IsFin(b) THEN
        IF b.n = 0
        THEN (IF a.n = 0 THEN NaN ELSE IF a.n > 0 THEN PInf ELSE NInf)
        ELSE Mk(SgnInt(b.n) * a.n * b.d, a.d * AbsInt(b.n), a.x - b.x)
    ELSE IF IsInf(a) /\ IsInf(b) THEN NaN
    ELSE IF IsInf(a) THEN (IF Sgn(b) < 0 THEN Neg(a) ELSE a)
    ELSE Zero

\* e^1 .. e^4 in thousandths; e^x is irrational for x # 0, so a comparison
\* of a rational with it is never a tie.
EMilli == <<2718, 7389, 20086, 54598>>

\* |a| < |b| for finite non-zero a, b.
MagLt(a, b) ==
    LET p == AbsInt(a.n) * b.d
        q == a.d * AbsInt(b.n)
        j == b.x - a.x
    IN IF j = 0 THEN p < q
       ELSE IF j > 0 THEN p * 1000 < q * EMilli[j]
       ELSE p * EMilli[-j] < q * 1000

\* a < b on finite numbers and infinities (never true of NaN).
Lt(a, b) ==
    IF a.k \in {"nan", "unrep"} \/ b.k \in {"nan", "unrep"} THEN FALSE
    ELSE IF a = b THEN FALSE
    ELSE IF a.k = "ninf" \/ b.k = "pinf" THEN TRUE
    ELSE IF a.k = "pinf" \/ b.k = "ninf" THEN FALSE
    ELSE IF Sgn(a) # Sgn(b) THEN Sgn(a) < Sgn(b)
    ELSE IF Sgn(a) > 0 THEN MagLt(a, b)
    ELSE MagLt(b, a)

Leq(a, b) == (a = b /\ a.k \notin {"nan", "unrep"}) \/ Lt(a, b)

IsSquare(i) == \E r \in 0..i : r * r = i

ISqrt(i) == CHOOSE r \in 0..i : r * r = i

RECURSIVE IPow10(_)
IPow10(j) == IF j = 0 THEN 1 ELSE 10 * IPow10(j - 1)

\* 10^j for an integer j.
Pow10(j) == IF j >= 0 THEN R(IPow10(j)) ELSE Q(1, IPow10(-j))

\* Exponents searched by FloorLog10: every finite non-zero number within the
\* bounds lies in [10^-3, 10^3).
Log10Range == -3..2

\* floor(log10(a)) for finite a > 0.
FloorLog10(a) ==
    CHOOSE j \in Log10Range : Leq(Pow10(j), a) /\ Lt(a, Pow10(j + 1))

\* IEEE sum; exact where both operands carry the same factor e^x.
Add(a, b) ==
    IF a.k = "unrep" \/ b.k = "unrep" THEN Unrep
    ELSE IF a.k = "nan" \/ b.k = "nan" THEN NaN
    ELSE IF IsInf(a) /\ IsInf(b) THEN (IF a = b THEN a ELSE NaN)
    ELSE IF IsInf(a) THEN a
    ELSE IF IsInf(b) THEN b
    ELSE IF a.n = 0 THEN b
    ELSE IF b.n = 0 THEN a
    ELSE IF a.x = b.x THEN Mk(a.n * b.d + b.n * a.d, a.d * b.d, a.x)
    ELSE Unrep

Sub(a, b) == Add(a, Neg(b))

\* numpy.maximum and numpy.minimum: a NaN operand gives NaN.
Maximum(a, b) ==
    IF a.k = "unrep" \/ b.k = "unrep" THEN Unrep
    ELSE IF a.k = "nan" \/ b.k = "nan" THEN NaN
    ELSE IF Lt(a, b) THEN b ELSE a

Minimum(a, b) ==
    IF a.k = "unrep" \/ b.k = "unrep" THEN Unrep
    ELSE IF a.k = "nan" \/ b.k = "nan" THEN NaN
    ELSE IF Lt(b, a) THEN b ELSE a

\* A stored number: a special, or a finite number within the bounds.
InDomain(a) ==
    /\ a.k # "unrep"
    /\ AbsInt(a.n) <= MaxNum
    /\ a.d <= MaxNum
    /\ AbsInt(a.x) <= MaxExp

\* ------------------------------------------------ interpolation_scale
\* interpolation_scale("log")(v): the natural logarithm, -Inf at 0 and NaN
\* below 0.  Exact on e^x; another finite positive number has an irrational
\* logarithm.
Log(a) ==
    CASE a.k = "unrep" -> Unrep
      [] a.k = "nan" -> NaN
      [] a.k = "pinf" -> PInf
      [] a.k = "ninf" -> NaN
      [] OTHER ->
           IF a.n < 0 THEN NaN
           ELSE IF a.n = 0 THEN NInf
           ELSE IF a.n = 1 /\ a.d = 1 THEN R(a.x)
           ELSE Unrep

\* interpolation_scale("log").inverse(v): exp, exact on the integers.
Exp(a) ==
    CASE a.k = "unrep" -> Unrep
      [] a.k = "nan" -> NaN
      [] a.k = "pinf" -> PInf
      [] a.k = "ninf" -> Zero
      [] OTHER ->
           IF a.x = 0 /\ a.d = 1 THEN E(a.n) ELSE Unrep

\* interpolation_scale("sqrt")(v): sign(v) * sqrt(|v|), exact on the squares.
SignedSqrt(a) ==
    CASE a.k = "fin" ->
           IF IsSquare(AbsInt(a.n)) /\ IsSquare(a.d) /\ a.x % 2 = 0
           THEN Mk(SgnInt(a.n) * ISqrt(AbsInt(a.n)), ISqrt(a.d), a.x \div 2)
           ELSE Unrep
      [] OTHER -> a

\* interpolation_scale("sqrt").inverse(v): the square, keeping the sign.
SignedSquare(a) ==
    CASE a.k = "fin" -> Mk(SgnInt(a.n) * a.n * a.n, a.d * a.d, 2 * a.x)
      [] OTHER -> a

Transforms == {"lin", "log", "sqrt"}

\* interp_scale(value) of the scale transform t.
InterpScale(t, a) ==
    CASE t = "lin" -> a
      [] t = "log" -> Log(a)
      [] t = "sqrt" -> SignedSqrt(a)

\* interp_scale.inverse(value) of the scale transform t.
InterpScaleInverse(t, a) ==
    CASE t = "lin" -> a
      [] t = "log" -> Exp(a)
      [] t = "sqrt" -> SignedSquare(a)

\* --------------------------------------------------------------- Parameter
\* One Parameter: its fields, and the history op, v0, a0 of the last calls.
VARIABLES value, factor, scale, scale_method, scale_transform, op, v0, a0

\* Its bounds min and max, its error (par_error) and scan_n_sigma, and the arguments of
\* the last set_lim call.
VARIABLES min, max, par_error, scan_n_sigma, lim

\* One Parameters container: the Parameter objects pars (by identity), the
\* list _parameters of references slots, the restore_parameters_status
\* object cm, the number of assignments made so far, and the records
\* at_enter and at_exit of the objects when __enter__ and __exit__ were called.
VARIABLES pars, slots, cm, nassign, at_enter, at_exit

\* The list _parameters of a copy of the container (references into pars),
\* the last call made on the container or on its copy, and the objects
\* before that call.
VARIABLES cslots, sop, before

lvars == <<min, max, par_error, scan_n_sigma, lim>>

\* One DataStore: the rows of its HDU index table, the last call made on it
\* and what the call returned or raised.
VARIABLES hdu_table, ds_call, ds_result

dvars == <<hdu_table, ds_call, ds_result>>

\* A DataStoreMaker: the EVENTS headers of the files on disk, the two path
\* lists, the header cache, and the last call with its result.
VARIABLES headers, events_paths, irfs_paths, events_info, mk_call, mk_result

mvars == <<headers, events_paths, irfs_paths, events_info, mk_call, mk_result>>

\* An EventList: its table, and the last selection with its result.
VARIABLES ev_table, ev_call, ev_result

evars == <<ev_table, ev_call, ev_result>>

xvars == <<dvars, mvars, evars>>

pvars ==
    <<value, factor, scale, scale_method, scale_transform, op, v0, a0, lvars>>

gvars == <<cslots, sop, before>>

svars == <<pars, slots, cm, nassign, at_enter, at_exit, gvars>>

vars == <<pvars, svars, xvars>>

\* scale_method None is written "none".
Methods == {"scale10", "factor1", "none"}

\* Parameter.transform(value) without update_scale, at scale s.
Transform(t, s, a) == Div(InterpScale(t, a), s)

\* Parameter.inverse_transform(factor) at scale s.
InverseTransform(t, s, f) == InterpScaleInverse(t, Mul(s, f))

\* An update_scale that rounds the exponent of "scale10" up, not down.
UpdateScaleCeil(m, tv, s) ==
    CASE m = "scale10" ->
           IF tv = Zero THEN s
           ELSE IF IsFin(tv) THEN
               LET j == FloorLog10(Abs(tv))
               IN IF Abs(tv) = Pow10(j) THEN Pow10(j) ELSE Pow10(j + 1)
           ELSE IF IsInf(tv) THEN PInf
           ELSE tv
      [] m = "factor1" -> tv
      [] OTHER -> s

\* Parameter.update_scale(value): the scale after the call, s before it.
UpdateScale(m, tv, s) ==
    CASE m = "scale10" ->
           IF tv = Zero THEN s
           ELSE IF IsFin(tv) THEN Pow10(FloorLog10(Abs(tv)))
           ELSE IF IsInf(tv) THEN PInf
           ELSE tv
      [] m = "factor1" -> tv
      [] OTHER -> s

\* Values a caller assigns to value, and gives the constructor.
Values ==
    {R(0), R(1), R(2), R(-2), R(4), R(20), Q(1, 4), E(1), E(-1)}

\* Factors the optimizer assigns.
Factors == {R(0), R(1), R(-1), R(2), Q(1, 2)}

\* Scales given to the constructor.
InitScales == {R(1), R(10)}

NoAuto == [on |-> FALSE, v |-> Zero]

\* History: op is the last operation, v0 the value before it, and a0 records
\* the value before a normally returning autoscale() that came right before.
Hist(name) ==
    /\ op' = name
    /\ v0' = value
    /\ a0' = IF op = "autoscale" THEN [on |-> TRUE, v |-> v0] ELSE NoAuto
    /\ UNCHANGED lvars
    /\ UNCHANGED svars
    /\ UNCHANGED xvars

\* None, as an argument.
None == [k |-> "none", n |-> 0, d |-> 1, x |-> 0]

NoLim == [min |-> None, max |-> None]

\* The defaults of Parameter.__init__: min and max NaN, error 0,
\* scan_n_sigma 2.
LimDefault ==
    /\ min = NaN
    /\ max = NaN
    /\ par_error = Zero
    /\ scan_n_sigma = 2
    /\ lim = NoLim

\* Parameter.__init__: the fields are stored and value goes through its setter.
ParamInit ==
    /\ value \in Values
    /\ scale \in InitScales
    /\ scale_method \in Methods
    /\ scale_transform \in Transforms
    /\ factor = Transform(scale_transform, scale, value)
    /\ InDomain(factor)
    /\ op = "init"
    /\ v0 = value
    /\ a0 = NoAuto
    /\ LimDefault

\* value.setter.  A division by a zero scale either raises ZeroDivisionError
\* (Python floats) after _value was stored, or gives the IEEE result (numpy
\* floats): the kind of float is decided outside this file.
SetValue(v, raises) ==
    /\ raises => scale = Zero
    /\ value' = v
    /\ factor' = IF raises THEN factor
                 ELSE Transform(scale_transform, scale, v)
    /\ InDomain(factor')
    /\ UNCHANGED <<scale, scale_method, scale_transform>>
    /\ Hist(IF raises THEN "value_raised" ELSE "value")

\* A factor setter that stores the factor and leaves value as it was.
SetFactorKeepsValue(f) ==
    /\ factor' = f
    /\ UNCHANGED <<value, scale, scale_method, scale_transform>>
    /\ Hist("factor")

\* factor.setter.
SetFactor(f) ==
    /\ factor' = f
    /\ value' = InverseTransform(scale_transform, scale, f)
    /\ InDomain(value')
    /\ UNCHANGED <<scale, scale_method, scale_transform>>
    /\ Hist("factor")

\* reset_autoscale().
ResetAutoscale ==
    /\ factor' = value
    /\ scale' = One
    /\ UNCHANGED <<value, scale_method, scale_transform>>
    /\ Hist("reset_autoscale")

\* scale_method.setter: an unknown method raises ValueError before any change.
SetScaleMethod(m) ==
    /\ IF m \in Methods
       THEN /\ factor' = value
            /\ scale' = One
            /\ scale_method' = m
            /\ UNCHANGED <<value, scale_transform>>
            /\ Hist("scale_method")
       ELSE /\ UNCHANGED <<value, factor, scale, scale_method, scale_transform>>
            /\ Hist("scale_method_raised")

\* scale_transform.setter: an unknown transform raises ValueError before any
\* change.  Enabled where the value has a representable transform under t.
SetScaleTransform(t) ==
    /\ IF t \in Transforms
       THEN /\ InterpScale(t, value) # Unrep
            /\ factor' = value
            /\ scale' = One
            /\ scale_transform' = t
            /\ UNCHANGED <<value, scale_method>>
            /\ Hist("scale_transform")
       ELSE /\ UNCHANGED <<value, factor, scale, scale_method, scale_transform>>
            /\ Hist("scale_transform_raised")

\* autoscale(): transform(value, update_scale=True) updates the scale and
\* divides by it; the result goes through the factor setter, which stores it
\* and recomputes value from it.  A zero new scale: as in SetValue, except
\* that under "lin" and "factor1" both operands are the Python float _value,
\* so the division raises.
Autoscale(raises) ==
    LET tv == InterpScale(scale_transform, value)
        s == UpdateScale(scale_method, tv, scale)
        f == Div(tv, s)
    IN /\ raises => s = Zero
       /\ (s = Zero /\ scale_transform = "lin" /\ scale_method = "factor1")
              => raises
       /\ scale' = s
       /\ factor' = IF raises THEN factor ELSE f
       /\ value' = IF raises THEN value
                   ELSE InverseTransform(scale_transform, s, f)
       /\ InDomain(scale') /\ InDomain(factor') /\ InDomain(value')
       /\ UNCHANGED <<scale_method, scale_transform>>
       /\ Hist(IF raises THEN "autoscale_raised" ELSE "autoscale")

\* ------------------------------------------------------ bounds of a Parameter
\* min.setter and max.setter: None becomes NaN, a number is stored as a float.
LimitOf(x) == IF x = None THEN NaN ELSE x

\* Values, bounds and errors given to a Parameter whose bounds are studied.
LimValues == {R(0), R(1), R(-2)}

LimArgs == {None, R(0), R(3)}

Errors == {R(0), R(3)}

\* Parameter(name, value, min=mn, max=mx, error=e, scan_n_sigma=n).
LimInit ==
    /\ value \in LimValues
    /\ scale = One
    /\ scale_method = "scale10"
    /\ scale_transform = "lin"
    /\ factor = Transform(scale_transform, scale, value)
    /\ op = "init"
    /\ v0 = value
    /\ a0 = NoAuto
    /\ \E mn \in LimArgs : min = LimitOf(mn)
    /\ \E mx \in LimArgs : max = LimitOf(mx)
    /\ par_error \in Errors
    /\ scan_n_sigma \in {2, 3}
    /\ lim = NoLim

\* An operation on the bounds: the scale machinery is left alone.
LimHist(name) ==
    /\ op' = name
    /\ v0' = value
    /\ a0' = NoAuto
    /\ UNCHANGED <<value, factor, scale, scale_method, scale_transform>>
    /\ UNCHANGED <<par_error, scan_n_sigma>>
    /\ UNCHANGED svars
    /\ UNCHANGED xvars

\* min.setter.
SetMin(x) ==
    /\ min' = LimitOf(x)
    /\ UNCHANGED <<max, lim>>
    /\ LimHist("min")

\* max.setter.
SetMax(x) ==
    /\ max' = LimitOf(x)
    /\ UNCHANGED <<min, lim>>
    /\ LimHist("max")

\* set_lim(min=mn, max=mx): an argument that is None is skipped.
SetLim(mn, mx) ==
    /\ min' = IF mn # None THEN LimitOf(mn) ELSE min
    /\ max' = IF mx # None THEN LimitOf(mx) ELSE max
    /\ lim' = [min |-> mn, max |-> mx]
    /\ LimHist("set_lim")

\* The factor 1e5 of conf_min and conf_max.
LargeFactor == 100000

\* Parameter._step.
Step == IF Lt(Zero, par_error) THEN par_error ELSE Abs(value)

\* large_step of conf_min and conf_max.
LargeStep == Maximum(Step, Abs(value))

\* A conf_min without the clamp by large_step * 1e5.
ConfMinNoClamp ==
    IF min.k # "nan" THEN min
    ELSE Sub(value, Mul(Step, R(scan_n_sigma)))

\* Parameter.conf_min.
ConfMin ==
    IF min.k # "nan" THEN min
    ELSE Minimum(Sub(value, Mul(Step, R(scan_n_sigma))),
                 Mul(Neg(LargeStep), R(LargeFactor)))

\* Parameter.conf_max.
ConfMax ==
    IF max.k # "nan" THEN max
    ELSE Maximum(Add(value, Mul(Step, R(scan_n_sigma))),
                 Mul(LargeStep, R(LargeFactor)))

LimNext ==
    \/ \E v \in LimValues, raises \in BOOLEAN : SetValue(v, raises)
    \/ \E x \in LimArgs : SetMin(x)
    \/ \E x \in LimArgs : SetMax(x)
    \/ \E mn, mx \in LimArgs : SetLim(mn, mx)

\* Parameter.factor_min and Parameter.factor_max: transform(min) and
\* transform(max) at the current scale.
FactorMin == Transform(scale_transform, scale, min)

FactorMax == Transform(scale_transform, scale, max)

\* Values and bounds of a bounded Parameter under the optimizer.
OrderValues == {R(-4), R(-1), R(1), R(4), E(-1), E(1)}

\* Parameter(name, value, min=.., max=.., scale=.., scale_method=..,
\* scale_transform=..) with min <= value <= max.
OrderInit ==
    /\ value \in OrderValues
    /\ min \in OrderValues /\ max \in OrderValues
    /\ Leq(min, value) /\ Leq(value, max)
    /\ scale \in InitScales
    /\ scale_method \in Methods
    /\ scale_transform \in Transforms
    /\ factor = Transform(scale_transform, scale, value)
    /\ InDomain(factor)
    /\ op = "init"
    /\ v0 = value
    /\ a0 = NoAuto
    /\ par_error = Zero
    /\ scan_n_sigma = 2
    /\ lim = NoLim

\* Value assignments and autoscale() on a bounded Parameter.
OrderNext ==
    \/ \E v \in OrderValues, raises \in BOOLEAN : SetValue(v, raises)
    \/ \E raises \in BOOLEAN : Autoscale(raises)

\* -------------------------------------------------------------- Parameters
\* Number of Parameter objects.
NPars == 2
\* Longest list of references.
MaxSlots == 3
\* Most assignments to value and frozen in one behaviour.
MaxAssign == 2

ParIds == 1..NPars

\* The objects: those given to the container, and room for a copy of each.
HeapIds == 1..(2 * NPars)

NoLabel == [name |-> "", suffix |-> ""]

NoCall == [name |-> "none", attr |-> "", given |-> <<>>, slot |-> 0]

\* Objects 1 and 2 carry the same name.
NameOf(p) == IF p <= 2 THEN "amplitude" ELSE "index"

SetValues == {R(1), R(2)}

RECURSIVE SeqsUpTo(_, _)
\* The sequences over S of length at most n.
SeqsUpTo(S, n) ==
    IF n = 0 THEN {<<>>}
    ELSE LET shorter == SeqsUpTo(S, n - 1)
         IN shorter \cup {Append(q, e) : q \in shorter, e \in S}

NoCm == [state |-> "none", restore_values |-> FALSE, error |-> FALSE,
         values |-> <<>>, frozen |-> <<>>]

\* Parameter(name, 1): scale 1, "lin", not frozen.
NewPars ==
    [p \in HeapIds |->
        [name |-> NameOf(p), value |-> R(1),
         factor |-> Transform("lin", One, R(1)), frozen |-> FALSE,
         min |-> NaN, max |-> NaN, label |-> NoLabel,
         scale |-> One, scale_transform |-> "lin"]]

\* Parameters.__init__(parameters).
SetInit ==
    /\ pars = NewPars
    /\ slots \in SeqsUpTo(ParIds, MaxSlots)
    /\ cm = NoCm
    /\ nassign = 0
    /\ at_enter = NewPars
    /\ at_exit = NewPars
    /\ cslots = <<>>
    /\ sop = NoCall
    /\ before = NewPars

SetIdle ==
    /\ pars = NewPars
    /\ slots = <<>>
    /\ cm = NoCm
    /\ nassign = 0
    /\ at_enter = NewPars
    /\ at_exit = NewPars
    /\ cslots = <<>>
    /\ sop = NoCall
    /\ before = NewPars

ParamIdle ==
    /\ value = One
    /\ factor = One
    /\ scale = One
    /\ scale_method = "scale10"
    /\ scale_transform = "lin"
    /\ op = "init"
    /\ v0 = One
    /\ a0 = NoAuto
    /\ LimDefault

\* value.setter on an object of the container.
WithValue(ps, p, v) ==
    [ps EXCEPT ![p].value = v,
               ![p].factor = Transform(ps[p].scale_transform, ps[p].scale, v)]

\* factor.setter on an object of the container.
WithFactor(ps, p, f) ==
    [ps EXCEPT ![p].factor = f,
               ![p].value = InverseTransform(ps[p].scale_transform,
                                             ps[p].scale, f)]

\* frozen.setter on an object of the container, given a bool.
WithFrozen(ps, p, b) == [ps EXCEPT ![p].frozen = b]

\* parameters[i].value = v, before the scope is left.
SetParValue(i, v) ==
    /\ cm.state # "exited"
    /\ nassign < MaxAssign
    /\ i \in 1..Len(slots)
    /\ pars' = WithValue(pars, slots[i], v)
    /\ nassign' = nassign + 1
    /\ UNCHANGED <<slots, cm, at_enter, at_exit, gvars, pvars, xvars>>

\* parameters[i].frozen = b, before the scope is left.
SetParFrozen(i, b) ==
    /\ cm.state # "exited"
    /\ nassign < MaxAssign
    /\ i \in 1..Len(slots)
    /\ pars' = WithFrozen(pars, slots[i], b)
    /\ nassign' = nassign + 1
    /\ UNCHANGED <<slots, cm, at_enter, at_exit, gvars, pvars, xvars>>

\* Parameters.restore_status(restore_values):
\* restore_parameters_status.__init__ copies the values and frozen flags.
RestoreStatus(rv) ==
    /\ cm.state = "none"
    /\ cm' = [state |-> "created", restore_values |-> rv, error |-> FALSE,
              values |-> [i \in 1..Len(slots) |-> pars[slots[i]].value],
              frozen |-> [i \in 1..Len(slots) |-> pars[slots[i]].frozen]]
    /\ UNCHANGED <<pars, slots, nassign, at_enter, at_exit, gvars, pvars, xvars>>

\* restore_parameters_status.__enter__: pass.
Enter ==
    /\ cm.state = "created"
    /\ cm' = [cm EXCEPT !.state = "entered"]
    /\ at_enter' = pars
    /\ UNCHANGED <<pars, slots, nassign, at_exit, gvars, pvars, xvars>>

RECURSIVE RestoreSlots(_, _, _)
\* The loop of __exit__ from position i on: par.value = value when
\* restore_values, then par.frozen = frozen.
RestoreSlots(ps, c, i) ==
    IF i > Len(slots) THEN ps
    ELSE LET p == slots[i]
             withv == IF c.restore_values THEN WithValue(ps, p, c.values[i])
                      ELSE ps
         IN RestoreSlots(WithFrozen(withv, p, c.frozen[i]), c, i + 1)

\* An __exit__ that restores only when the block ended without an error.
ExitNormalOnly(error) ==
    /\ cm.state = "entered"
    /\ at_exit' = pars
    /\ pars' = IF error THEN pars ELSE RestoreSlots(pars, cm, 1)
    /\ cm' = [cm EXCEPT !.state = "exited", !.error = error]
    /\ UNCHANGED <<slots, nassign, at_enter, gvars, pvars, xvars>>

\* restore_parameters_status.__exit__, called by the with statement when the
\* block ends and when it raises (error).
Exit(error) ==
    /\ cm.state = "entered"
    /\ at_exit' = pars
    /\ pars' = RestoreSlots(pars, cm, 1)
    /\ cm' = [cm EXCEPT !.state = "exited", !.error = error]
    /\ UNCHANGED <<slots, nassign, at_enter, gvars, pvars, xvars>>

RECURSIVE FromKeysByName(_, _)
\* A deduplication that takes two objects of the same name for one.
FromKeysByName(sl, acc) ==
    IF sl = <<>> THEN acc
    ELSE IF \E j \in 1..Len(acc) : NameOf(acc[j]) = NameOf(Head(sl))
         THEN FromKeysByName(Tail(sl), acc)
         ELSE FromKeysByName(Tail(sl), Append(acc, Head(sl)))

RECURSIVE FromKeys(_, _)
\* list(dict.fromkeys(sl)): the keys in order of first insertion, acc so far.
\* A Parameter defines neither __eq__ nor __hash__: keys are object identities.
FromKeys(sl, acc) ==
    IF sl = <<>> THEN acc
    ELSE IF \E j \in 1..Len(acc) : acc[j] = Head(sl)
         THEN FromKeys(Tail(sl), acc)
         ELSE FromKeys(Tail(sl), Append(acc, Head(sl)))

\* Parameters.unique_parameters.
UniqueParameters == FromKeys(slots, <<>>)

NotFrozen(p) == ~pars[p].frozen

\* A free_unique_parameters that filters the list of references itself.
FreeOfAllSlots == SelectSeq(slots, NotFrozen)

\* Parameters.free_unique_parameters.
FreeUniqueParameters == SelectSeq(UniqueParameters, NotFrozen)

\* Parameters.free_parameters.
FreeParameters == SelectSeq(slots, NotFrozen)

\* par.value = x, par.min = x or par.max = x on an object of the container.
WithAttr(ps, p, attr, x) ==
    CASE attr = "value" -> WithValue(ps, p, x)
      [] attr = "min" -> [ps EXCEPT ![p].min = LimitOf(x)]
      [] attr = "max" -> [ps EXCEPT ![p].max = LimitOf(x)]

\* The attribute the bulk getter reads from an object.
AttrOf(par, attr) ==
    CASE attr = "value" -> par.value
      [] attr = "min" -> par.min
      [] attr = "max" -> par.max

\* The bulk getter: np.array([par.attr for par in self._parameters]).
BulkGet(ps, attr) == [i \in 1..Len(slots) |-> AttrOf(ps[slots[i]], attr)]

RECURSIVE AssignEachReversed(_, _, _, _)
\* A loop that assigns the later slots first.
AssignEachReversed(ps, attr, xs, i) ==
    IF i > Len(xs) \/ i > Len(slots) THEN ps
    ELSE WithAttr(AssignEachReversed(ps, attr, xs, i + 1), slots[i], attr, xs[i])

RECURSIVE AssignEach(_, _, _, _)
\* for x, par in zip(xs, self): par.attr = x, from position i on.
AssignEach(ps, attr, xs, i) ==
    IF i > Len(xs) \/ i > Len(slots) THEN ps
    ELSE AssignEach(WithAttr(ps, slots[i], attr, xs[i]), attr, xs, i + 1)

BulkAttrs == {"value", "min", "max"}

\* Arrays of length m a caller assigns: pairwise different numbers, for value
\* also one number repeated, and for min and max one with None in front.
BulkArrays(attr, m) ==
    {[i \in 1..m |-> R(1 + i)]}
        \cup (IF attr = "value" THEN {[i \in 1..m |-> R(11)]}
              ELSE {[i \in 1..m |-> IF i = 1 THEN None ELSE R(1 + i)]})

\* The lengths tried against a container of n slots.
BulkLengths(n) == {m \in {n - 1, n, n + 1} : m >= 0}

\* A bulk setter that checks the length only after the loop.
BulkSetChecksLate(attr, xs) ==
    /\ nassign < MaxAssign
    /\ pars' = AssignEach(pars, attr, xs, 1)
    /\ sop' = [name |-> IF Len(slots) = Len(xs) THEN "bulk" ELSE "bulk_raised",
               attr |-> attr, given |-> xs, slot |-> 0]
    /\ before' = pars
    /\ nassign' = nassign + 1
    /\ UNCHANGED <<slots, cm, at_enter, at_exit, cslots, pvars, xvars>>

\* Parameters.value, .min and .max setters: ValueError on a length that is
\* not len(self), before any assignment.
BulkSet(attr, xs) ==
    /\ nassign < MaxAssign
    /\ IF Len(slots) = Len(xs)
       THEN /\ pars' = AssignEach(pars, attr, xs, 1)
            /\ sop' = [name |-> "bulk", attr |-> attr, given |-> xs, slot |-> 0]
       ELSE /\ pars' = pars
            /\ sop' = [name |-> "bulk_raised", attr |-> attr, given |-> xs, slot |-> 0]
    /\ before' = pars
    /\ nassign' = nassign + 1
    /\ UNCHANGED <<slots, cm, at_enter, at_exit, cslots, pvars, xvars>>

\* Suffixes make_name() may return.
Suffixes == {"a1b2", "c3d4"}

Member(q, e) == \E j \in 1..Len(q) : q[j] = e

RECURSIVE ParamsShared(_, _, _)
\* The first loop of update_link_label over the references sl: params_list
\* (every new object is appended twice) and params_shared so far; the result
\* is params_shared.  "in" on a list of Parameter objects compares identities.
ParamsShared(sl, params_list, params_shared) ==
    IF sl = <<>> THEN params_shared
    ELSE LET param == Head(sl)
         IN IF ~Member(params_list, param)
            THEN ParamsShared(Tail(sl), Append(Append(params_list, param), param),
                              params_shared)
            ELSE IF ~Member(params_shared, param)
            THEN ParamsShared(Tail(sl), params_list, Append(params_shared, param))
            ELSE ParamsShared(Tail(sl), params_list, params_shared)

\* param._link_label_io = param.name + "@" + make_name() for every param of
\* the list shared; sfx[p] is what make_name() returns for p.
WithLabels(ps, shared, sfx) ==
    [p \in HeapIds |->
        IF Member(shared, p)
        THEN [ps[p] EXCEPT !.label = [name |-> ps[p].name, suffix |-> sfx[p]]]
        ELSE ps[p]]

\* An update_link_label that labels every parameter of the set.
UpdateLinkLabelAll(sfx) ==
    /\ nassign < MaxAssign
    /\ pars' = WithLabels(pars, slots, sfx)
    /\ sop' = [NoCall EXCEPT !.name = "update_link_label"]
    /\ before' = pars
    /\ nassign' = nassign + 1
    /\ UNCHANGED <<slots, cm, at_enter, at_exit, cslots, pvars, xvars>>

\* Parameters.update_link_label().
UpdateLinkLabel(sfx) ==
    /\ nassign < MaxAssign
    /\ pars' = WithLabels(pars, ParamsShared(slots, <<>>, <<>>), sfx)
    /\ sop' = [NoCall EXCEPT !.name = "update_link_label"]
    /\ before' = pars
    /\ nassign' = nassign + 1
    /\ UNCHANGED <<slots, cm, at_enter, at_exit, cslots, pvars, xvars>>

\* A label read from a file.
LoadedLabel == [name |-> "amplitude", suffix |-> "old"]

\* Parameters.from_dict(data): as Parameters.__init__, and the first object
\* carries the link label of its entry, if the entry has one.
FromDictInit ==
    /\ \E lb \in {NoLabel, LoadedLabel} :
           /\ pars = [NewPars EXCEPT ![1].label = lb]
           /\ before = pars
    /\ slots \in SeqsUpTo(ParIds, MaxSlots)
    /\ cm = NoCm
    /\ nassign = 0
    /\ at_enter = NewPars
    /\ at_exit = NewPars
    /\ cslots = <<>>
    /\ sop = NoCall

\* copy.deepcopy of the objects referenced by sl: the copy of object p is the
\* new object NPars + p, made once however many references lead to p.
DeepCopied(ps, sl) ==
    [h \in HeapIds |->
        IF h > NPars /\ Member(sl, h - NPars) THEN ps[h - NPars] ELSE ps[h]]

\* A copy() that copies the list and not the objects (copy.copy).
CopyShallow ==
    /\ nassign < MaxAssign
    /\ cslots = <<>>
    /\ cslots' = slots
    /\ pars' = pars
    /\ sop' = [NoCall EXCEPT !.name = "copy"]
    /\ before' = pars
    /\ nassign' = nassign + 1
    /\ UNCHANGED <<slots, cm, at_enter, at_exit, pvars, xvars>>

\* Parameters.copy(): copy.deepcopy(self); cslots is the list of the copy.
Copy ==
    /\ nassign < MaxAssign
    /\ cslots = <<>>
    /\ cslots' = [i \in 1..Len(slots) |-> NPars + slots[i]]
    /\ pars' = DeepCopied(pars, slots)
    /\ sop' = [NoCall EXCEPT !.name = "copy"]
    /\ before' = pars
    /\ nassign' = nassign + 1
    /\ UNCHANGED <<slots, cm, at_enter, at_exit, pvars, xvars>>

\* parameters[i].copy(): copy.deepcopy of one Parameter; cslots holds the
\* reference to the copy.
CopyParameter(i) ==
    /\ nassign < MaxAssign
    /\ cslots = <<>>
    /\ i \in 1..Len(slots)
    /\ cslots' = <<NPars + slots[i]>>
    /\ pars' = DeepCopied(pars, <<slots[i]>>)
    /\ sop' = [NoCall EXCEPT !.name = "copy_parameter", !.slot = i]
    /\ before' = pars
    /\ nassign' = nassign + 1
    /\ UNCHANGED <<slots, cm, at_enter, at_exit, pvars, xvars>>

\* Attributes and the number assigned to them around a copy.
CopyAttrs == {"value", "min"}

\* parameters[i].value = x or parameters[i].min = x on the original.
AssignOriginal(i, attr, x) ==
    /\ nassign < MaxAssign
    /\ i \in 1..Len(slots)
    /\ pars' = WithAttr(pars, slots[i], attr, x)
    /\ sop' = [NoCall EXCEPT !.name = "assign_original", !.attr = attr,
                             !.slot = i]
    /\ before' = pars
    /\ nassign' = nassign + 1
    /\ UNCHANGED <<slots, cm, at_enter, at_exit, cslots, pvars, xvars>>

\* The same assignment through slot j of the copy.
AssignCopy(j, attr, x) ==
    /\ nassign < MaxAssign
    /\ j \in 1..Len(cslots)
    /\ pars' = WithAttr(pars, cslots[j], attr, x)
    /\ sop' = [NoCall EXCEPT !.name = "assign_copy", !.attr = attr, !.slot = j]
    /\ before' = pars
    /\ nassign' = nassign + 1
    /\ UNCHANGED <<slots, cm, at_enter, at_exit, cslots, pvars, xvars>>

\* ---------------------------------------------------------------------
\* The frozen flag.

\* What a caller assigns to frozen: bools, strings, and other objects.
Bool(b) == [kind |-> "bool", b |-> b, s |-> ""]

Str(str) == [kind |-> "str", b |-> FALSE, s |-> str]

FrozenArgs ==
    {Bool(TRUE), Bool(FALSE), Str("True"), Str("False"), Str("yes"), Str(""),
     [kind |-> "np.bool_", b |-> TRUE, s |-> ""],
     [kind |-> "int", b |-> TRUE, s |-> ""],
     [kind |-> "NoneType", b |-> FALSE, s |-> ""]}

\* bool(val) of a string: True unless the string is empty.
BoolOfStr(str) == str # ""

\* frozen.setter: "True" and "False" go through bool(), anything that is
\* then not a bool raises TypeError before the flag is stored.
FrozenSetter(ps, p, val) ==
    LET v == IF val.kind = "str" /\ val.s \in {"True", "False"}
             THEN Bool(BoolOfStr(val.s)) ELSE val
    IN IF v.kind \notin {"bool", "np.bool_"}
       THEN [pars |-> ps, raised |-> TRUE]
       ELSE [pars |-> [ps EXCEPT ![p].frozen = v.b], raised |-> FALSE]

\* parameters[i].frozen = val.
AssignFrozen(i, val) ==
    /\ nassign < MaxAssign
    /\ i \in 1..Len(slots)
    /\ LET out == FrozenSetter(pars, slots[i], val)
       IN /\ pars' = out.pars
          /\ sop' = [name |-> IF out.raised THEN "frozen_raised" ELSE "frozen",
                     attr |-> "frozen", given |-> <<val>>, slot |-> i]
    /\ before' = pars
    /\ nassign' = nassign + 1
    /\ UNCHANGED <<slots, cm, at_enter, at_exit, cslots, pvars, xvars>>

\* ---------------------------------------------------------------------
\* The optimizer interface of the container.

\* How the objects of a container were constructed: frozen or not, with a
\* scale and a scale transform.
ParKinds ==
    {[frozen |-> FALSE, scale |-> One, scale_transform |-> "lin"],
     [frozen |-> TRUE, scale |-> One, scale_transform |-> "lin"],
     [frozen |-> FALSE, scale |-> R(10), scale_transform |-> "lin"],
     [frozen |-> FALSE, scale |-> R(10), scale_transform |-> "sqrt"]}

\* Parameters([Parameter(name, 1, scale=.., scale_transform=.., frozen=..)]).
FactorsInit ==
    /\ \E kind \in [ParIds -> ParKinds] :
           pars = [p \in HeapIds |->
                      IF p \in ParIds
                      THEN [NewPars[p] EXCEPT
                                !.frozen = kind[p].frozen,
                                !.scale = kind[p].scale,
                                !.scale_transform = kind[p].scale_transform,
                                !.factor = Transform(kind[p].scale_transform,
                                                     kind[p].scale, R(1))]
                      ELSE NewPars[p]]
    /\ before = pars
    /\ slots \in SeqsUpTo(ParIds, MaxSlots)
    /\ cm = NoCm
    /\ nassign = 0
    /\ at_enter = NewPars
    /\ at_exit = NewPars
    /\ cslots = <<>>
    /\ sop = NoCall

\* The factor arrays the optimizer hands over, of length m.
FactorArrays(m) == {[i \in 1..m |-> R(1 + i)], [i \in 1..m |-> Q(i, 2)]}

RECURSIVE FactorsLoopBySlot(_, _, _, _)
\* A loop that takes the factor at the position of the slot.
FactorsLoopBySlot(ps, factors, i, idx) ==
    IF i > Len(slots) THEN [pars |-> ps, raised |-> FALSE]
    ELSE IF ps[slots[i]].frozen
    THEN FactorsLoopBySlot(ps, factors, i + 1, idx)
    ELSE IF i > Len(factors) THEN [pars |-> ps, raised |-> TRUE]
    ELSE FactorsLoopBySlot(WithFactor(ps, slots[i], factors[i]), factors,
                           i + 1, idx + 1)

RECURSIVE FactorsLoop(_, _, _, _)
\* The loop of set_parameter_factors from slot i on, idx factors consumed:
\* factors[idx] of a too short array raises IndexError where the loop stands.
FactorsLoop(ps, factors, i, idx) ==
    IF i > Len(slots) THEN [pars |-> ps, raised |-> FALSE]
    ELSE IF ps[slots[i]].frozen
    THEN FactorsLoop(ps, factors, i + 1, idx)
    ELSE IF idx + 1 > Len(factors) THEN [pars |-> ps, raised |-> TRUE]
    ELSE FactorsLoop(WithFactor(ps, slots[i], factors[idx + 1]), factors,
                     i + 1, idx + 1)

\* Parameters.set_parameter_factors(factors), one call on each container.
SetParameterFactors(factors) ==
    /\ sop.name = "none"
    /\ LET out == FactorsLoop(pars, factors, 1, 0)
       IN /\ pars' = out.pars
          /\ sop' = [name |-> IF out.raised THEN "set_parameter_factors_raised"
                              ELSE "set_parameter_factors",
                     attr |-> "factor", given |-> factors, slot |-> 0]
    /\ before' = pars
    /\ nassign' = nassign + 1
    /\ UNCHANGED <<slots, cm, at_enter, at_exit, cslots, pvars, xvars>>

\* ---------------------------------------------------------------- DataStore
\* Number of observation ids an HDU index table may hold.
NObs == 2

ObsIds == 1..NObs

\* The ids a caller asks for: NObs + 1 is in no table.
AskIds == 1..(NObs + 1)

ALL_IRFS == <<"aeff", "edisp", "psf", "bkg", "rad_max">>

ALL_HDUS == <<"events", "gti", "pointing">> \o ALL_IRFS

Presets == {"full-enclosure", "point-like", "all-optional"}

\* REQUIRED_IRFS with the entry of "point-like" repeated for "all-optional".
RequiredIrfsRepeated(name) ==
    CASE name = "full-enclosure" -> {"aeff", "edisp", "psf", "bkg"}
      [] name = "point-like" -> {"aeff", "edisp"}
      [] name = "all-optional" -> {"aeff", "edisp"}

\* REQUIRED_IRFS[name].
REQUIRED_IRFS(name) ==
    CASE name = "full-enclosure" -> {"aeff", "edisp", "psf", "bkg"}
      [] name = "point-like" -> {"aeff", "edisp"}
      [] name = "all-optional" -> {}

\* The HDU_CLASS DataStoreMaker writes for an HDU_TYPE.
HduClassOf(t) ==
    CASE t = "events" -> "events"
      [] t = "gti" -> "gti"
      [] t = "pointing" -> "pointing"
      [] t = "aeff" -> "aeff_2d"
      [] t = "edisp" -> "edisp_2d"
      [] t = "psf" -> "psf_3gauss"
      [] t = "bkg" -> "bkg_3d"
      [] t = "rad_max" -> "rad_max_2d"

\* The HDU types an observation may have rows for; {} is an id without rows.
Profiles ==
    {{},
     {"events", "gti", "pointing", "aeff", "edisp", "psf", "bkg"},
     {"events", "gti", "aeff", "bkg"},
     {"gti", "pointing", "aeff", "edisp", "psf", "bkg"},
     {"events", "gti", "aeff", "edisp", "rad_max"}}

RowsOf(id, types) ==
    {[OBS_ID |-> id, HDU_TYPE |-> t, HDU_CLASS |-> HduClassOf(t)] : t \in types}

NoLoc == [obs_id |-> 0, hdu_type |-> "", hdu_class |-> ""]

\* The keys of the keyword arguments given to Observation.
Keys == {ALL_HDUS[i] : i \in 1..Len(ALL_HDUS)} \cup {"meta"}

NoKwargs == [key \in Keys |-> NoLoc]

NoDsCall ==
    [name |-> "none", obs_id |-> 0, ids |-> [given |-> FALSE, list |-> <<>>],
     skip_missing |-> FALSE,
     required_irf |-> [kind |-> "str", str |-> "full-enclosure", list |-> <<>>],
     require_events |-> TRUE, selection |-> [given |-> FALSE, keep |-> {}]]

NoResult ==
    [status |-> "none", missing |-> <<>>, kwargs |-> NoKwargs, ids |-> <<>>,
     obs |-> <<>>, warnings |-> <<>>]

\* DataStore(hdu_table): any table with the rows of a profile for each id.
StoreInit ==
    /\ \E prof \in [ObsIds -> Profiles] :
           hdu_table = UNION {RowsOf(id, prof[id]) : id \in ObsIds}
    /\ ds_call = NoDsCall
    /\ ds_result = NoResult

StoreIdle ==
    /\ hdu_table = {}
    /\ ds_call = NoDsCall
    /\ ds_result = NoResult

\* HDUIndexTable.hdu_location(obs_id, hdu_type, warn_missing=False): the
\* location of the matching row, None (NoLoc) without one.
HduLocation(tbl, id, t) ==
    IF \E row \in tbl : row.OBS_ID = id /\ row.HDU_TYPE = t
    THEN LET row == CHOOSE r \in tbl : r.OBS_ID = id /\ r.HDU_TYPE = t
         IN [obs_id |-> row.OBS_ID, hdu_type |-> row.HDU_TYPE,
             hdu_class |-> row.HDU_CLASS]
    ELSE NoLoc

\* DataStore.obs_ids, as a set.
IndexedIds(tbl) == {row.OBS_ID : row \in tbl}

\* The values of required_irf: a preset or another string, or a list of keys.
Preset(name) == [kind |-> "str", str |-> name, list |-> <<>>]

KeyList(q) == [kind |-> "list", str |-> "", list |-> q]

RequiredIrfChoices ==
    {Preset(name) : name \in Presets \cup {"unknown"}}
        \cup {KeyList(<<"aeff", "rad_max">>), KeyList(<<"events", "aeff">>),
              KeyList(<<"gti">>), KeyList(<<"aeff", "hdu">>)}

\* required_irf after the short forms are replaced, as a set.
RequiredIrf(req) ==
    IF req.kind = "str" THEN REQUIRED_IRFS(req.str)
    ELSE {req.list[i] : i \in 1..Len(req.list)}

\* What obs() raises before it reads a location: KeyError for an unknown
\* short form, ValueError for a key outside ALL_IRFS; "" when it goes on.
RequiredIrfError(req) ==
    IF req.kind = "str" /\ req.str \notin Presets THEN "KeyError"
    ELSE IF ~(RequiredIrf(req) \subseteq {ALL_IRFS[i] : i \in 1..Len(ALL_IRFS)})
    THEN "ValueError"
    ELSE ""

\* required_hdus of obs().
RequiredHdus(req, require_events) ==
    IF require_events THEN {"events", "gti"} \cup RequiredIrf(req)
    ELSE RequiredIrf(req)

\* A missing_hdus that stops at the first missing type.
MissingFirstOnly(tbl, id, required) ==
    LET IsMissing(t) == HduLocation(tbl, id, t) = NoLoc /\ t \in required
        all == SelectSeq(ALL_HDUS, IsMissing)
    IN IF all = <<>> THEN <<>> ELSE <<Head(all)>>

\* missing_hdus of obs(): the required types without a location, in the
\* order of ALL_HDUS.
MissingHdus(tbl, id, required) ==
    LET IsMissing(t) == HduLocation(tbl, id, t) = NoLoc /\ t \in required
    IN SelectSeq(ALL_HDUS, IsMissing)

\* The kwargs of obs() where the pointing and meta entries are the events
\* location itself, not copies of it.
ObsKwargsAliased(tbl, id) ==
    LET found == [key \in Keys |->
                     IF key = "meta" THEN NoLoc ELSE HduLocation(tbl, id, key)]
        shared == [found["events"] EXCEPT !.hdu_class = "observation_metadata"]
    IN IF found["events"] # NoLoc
       THEN [found EXCEPT !["events"] = shared, !["pointing"] = shared,
                          !["meta"] = shared]
       ELSE found

\* The kwargs of obs(): every location found, and with an events location
\* two copies of it with hdu_class "pointing" and "observation_metadata".
ObsKwargs(tbl, id) ==
    LET found == [key \in Keys |->
                     IF key = "meta" THEN NoLoc ELSE HduLocation(tbl, id, key)]
    IN IF found["events"] # NoLoc
       THEN [found EXCEPT
                !["pointing"] = [found["events"] EXCEPT !.hdu_class = "pointing"],
                !["meta"] = [found["events"] EXCEPT
                                !.hdu_class = "observation_metadata"]]
       ELSE found

\* DataStore.obs(obs_id, required_irf, require_events): the Observation's
\* kwargs, or the error raised.
ObsOutcome(tbl, id, req, require_events) ==
    IF id \notin IndexedIds(tbl)
    THEN [status |-> "ValueError", missing |-> <<>>, kwargs |-> NoKwargs]
    ELSE IF RequiredIrfError(req) # ""
    THEN [status |-> RequiredIrfError(req), missing |-> <<>>,
          kwargs |-> NoKwargs]
    ELSE LET missing_hdus ==
                 MissingHdus(tbl, id, RequiredHdus(req, require_events))
         IN IF Len(missing_hdus) > 0
            THEN [status |-> "MissingRequiredHDU", missing |-> missing_hdus,
                  kwargs |-> NoKwargs]
            ELSE [status |-> "ok", missing |-> <<>>,
                  kwargs |-> ObsKwargs(tbl, id)]

\* data_store.obs(id, req, require_events).  The store is not changed by a
\* call, so one call is made on each store.
Obs(id, req, require_events) ==
    /\ ds_call.name = "none"
    /\ ds_call' = [NoDsCall EXCEPT !.name = "obs", !.obs_id = id,
                                  !.required_irf = req,
                                  !.require_events = require_events]
    /\ LET out == ObsOutcome(hdu_table, id, req, require_events)
       IN ds_result' = [NoResult EXCEPT !.status = out.status,
                                        !.missing = out.missing,
                                        !.kwargs = out.kwargs]
    /\ UNCHANGED <<hdu_table, pvars, svars, mvars, evars>>

\* The orders in which the elements of S may come.
Perms(S) ==
    {q \in [1..Cardinality(S) -> S] : \A i, j \in DOMAIN q : i # j => q[i] # q[j]}

\* numpy.unique: ascending.
SortedSeq(S) == CHOOSE q \in Perms(S) : \A i, j \in DOMAIN q : i < j => q[i] < q[j]

\* Lists of ids a caller asks for.
IdLists == {<<>>, <<1>>, <<NObs + 1>>, <<2, 1>>, <<1, 1>>, <<1, NObs + 1, 2>>}

\* Selection masks a caller gives, by the ids they keep.
Selections == {{}, {1}, ObsIds}

RECURSIVE Resolve(_, _, _, _, _)
\* The loop of get_observations over the ids sel: acc holds the ids appended
\* to obs_list, the warnings logged and the error that ended the loop.
Resolve(tbl, sel, req, require_events, acc) ==
    IF sel = <<>> THEN acc
    ELSE LET out == ObsOutcome(tbl, Head(sel), req, require_events)
         IN IF out.status = "MissingRequiredHDU"
            THEN Resolve(tbl, Tail(sel), req, require_events,
                         [acc EXCEPT !.warnings = Append(@, "missing_hdus")])
            ELSE IF out.status # "ok"
            THEN [acc EXCEPT !.status = out.status]
            ELSE Resolve(tbl, Tail(sel), req, require_events,
                         [acc EXCEPT !.ids = Append(@, Head(sel)),
                                     !.obs = Append(@, out.kwargs)])

\* A get_observations that raises on an unknown id whatever skip_missing is.
GetOutcomeNoSkip(tbl, ids, skip_missing, req, require_events, selection, order) ==
    LET obs_ids == IndexedIds(tbl)
        Unknown(x) == x \notin obs_ids
        unknown == IF ids.given THEN SelectSeq(ids.list, Unknown) ELSE <<>>
        Selected(x) == x \in obs_ids
    IN IF unknown # <<>>
       THEN [NoResult EXCEPT !.status = "ValueError"]
       ELSE Resolve(tbl, IF ids.given THEN SelectSeq(ids.list, Selected)
                         ELSE SortedSeq(obs_ids),
                    req, require_events, [NoResult EXCEPT !.status = "ok"])

\* DataStore.get_observations(obs_id, skip_missing, required_irf,
\* require_events, selection); order is the order in which the set made of
\* the selected ids is iterated.
GetOutcome(tbl, ids, skip_missing, req, require_events, selection, order) ==
    LET obs_ids == IndexedIds(tbl)
        first == IF selection.given THEN order ELSE SortedSeq(obs_ids)
        Unknown(x) == x \notin obs_ids
        unknown == IF ids.given THEN SelectSeq(ids.list, Unknown) ELSE <<>>
        Selected(x) == \E i \in 1..Len(first) : first[i] = x
        obs_id_selection ==
            IF ids.given THEN SelectSeq(ids.list, Selected) ELSE first
        \* len(np.unique(obs_id)) != len(obs_id); a set is one element there.
        not_unique ==
            IF ids.given
            THEN Cardinality({ids.list[i] : i \in 1..Len(ids.list)})
                     # Len(ids.list)
            ELSE selection.given /\ Len(first) # 1
        warned ==
            [i \in 1..Len(unknown) |-> "missing_obs_id"]
                \o (IF not_unique THEN <<"not_unique">> ELSE <<>>)
    IN IF unknown # <<>> /\ ~skip_missing
       THEN [NoResult EXCEPT !.status = "ValueError"]
       ELSE Resolve(tbl, obs_id_selection, req, require_events,
                    [NoResult EXCEPT !.status = "ok", !.warnings = warned])

\* data_store.get_observations(...), one call on each store.
GetObservations(ids, skip_missing, req, require_events, selection) ==
    /\ ds_call.name = "none"
    /\ ds_call' = [NoDsCall EXCEPT !.name = "get_observations", !.ids = ids,
                                  !.skip_missing = skip_missing,
                                  !.required_irf = req,
                                  !.require_events = require_events,
                                  !.selection = selection]
    /\ \E order \in Perms(IndexedIds(hdu_table) \cap selection.keep) :
           ds_result' = GetOutcome(hdu_table, ids, skip_missing, req,
                                   require_events, selection, order)
    /\ UNCHANGED <<hdu_table, pvars, svars, mvars, evars>>

\* ---------------------------------------------------------------------
\* DataStoreMaker: index tables built from the headers of event files.

\* Event files on disk, and IRF files a caller may name.
EventFiles == {"run1.fits", "run2.fits"}

IrfFiles == {"irf1.fits", "irf2.fits"}

\* make_path(None).
NoPath == "None"

\* na_str of read_events_info, and a header key that is not there.
NaStr == "NOT AVAILABLE"

NoKey == "no such key"

\* The optional keys of an EVENTS header in the cases read_events_info
\* tells apart; has is the set of pointing keys the header carries.
HeaderKinds ==
    {[OBS_MODE |-> NoKey, has |-> {"RA_PNT", "DEC_PNT"},
      RA_PNT |-> 83, DEC_PNT |-> 22, ALT_PNT |-> 0, AZ_PNT |-> 0,
      CALDB |-> NoKey, IRF |-> NoKey, MJDREF |-> 51910],
     [OBS_MODE |-> "POINTING", has |-> {"RA_PNT", "DEC_PNT"},
      RA_PNT |-> 83, DEC_PNT |-> 22, ALT_PNT |-> 0, AZ_PNT |-> 0,
      CALDB |-> "1dc", IRF |-> "South_z20_50h", MJDREF |-> 51910],
     [OBS_MODE |-> "DRIFT", has |-> {"ALT_PNT", "AZ_PNT"},
      RA_PNT |-> 0, DEC_PNT |-> 0, ALT_PNT |-> 70, AZ_PNT |-> 180,
      CALDB |-> NoKey, IRF |-> NoKey, MJDREF |-> 51910],
     [OBS_MODE |-> "DRIFT", has |-> {"RA_PNT", "DEC_PNT", "ALT_PNT", "AZ_PNT"},
      RA_PNT |-> 83, DEC_PNT |-> 22, ALT_PNT |-> 30, AZ_PNT |-> 180,
      CALDB |-> "1dc", IRF |-> NoKey, MJDREF |-> 51910],
     [OBS_MODE |-> "WOBBLE", has |-> {"RA_PNT", "DEC_PNT", "ALT_PNT", "AZ_PNT"},
      RA_PNT |-> 10, DEC_PNT |-> 20, ALT_PNT |-> 30, AZ_PNT |-> 180,
      CALDB |-> "1dc", IRF |-> "North_z20_50h", MJDREF |-> 51544],
     [OBS_MODE |-> NoKey, has |-> {"ALT_PNT", "AZ_PNT"},
      RA_PNT |-> 0, DEC_PNT |-> 0, ALT_PNT |-> 70, AZ_PNT |-> 180,
      CALDB |-> NoKey, IRF |-> "South_z20_50h", MJDREF |-> 51910]}

\* A header: one of the kinds with its OBS_ID.
Headers ==
    {[kind |-> k, OBS_ID |-> id] : k \in HeaderKinds, id \in ObsIds}

\* The lists of event files a maker is built on.
EventPathLists ==
    {<<"run1.fits">>, <<"run2.fits">>, <<"run1.fits", "run2.fits">>,
     <<"run1.fits", "run1.fits">>}

\* The lists of irf paths a caller gives, apart from None and a single path.
IrfPathLists ==
    {<<"irf1.fits">>, <<"irf1.fits", "irf2.fits">>, <<NoPath, "irf2.fits">>}

\* The info of a file whose header was not read.
NoInfo ==
    [OBS_ID |-> 0, keys |-> {}, RA_PNT |-> 0, DEC_PNT |-> 0, ALT_PNT |-> 0,
     AZ_PNT |-> 0, ZEN_PNT |-> 0, EVENTS_FILENAME |-> NoPath,
     IRF_FILENAME |-> NoPath, CALDB |-> NaStr, IRF |-> NaStr, MJDREF |-> 0]

NoMkCall == [name |-> "none", events_path |-> NoPath, irf_path |-> NoPath]

NoMkResult ==
    [status |-> "none", key |-> "", info |-> NoInfo, hdu_table |-> <<>>,
     obs_table |-> <<>>]

\* DataStoreMaker.__init__(events_paths, irfs_paths): None or a single path
\* is repeated for every event file, a list is taken as it is.
MakerInit ==
    /\ headers \in [EventFiles -> Headers]
    /\ events_paths \in EventPathLists
    /\ \/ \E path \in {NoPath} \cup IrfFiles :
              irfs_paths = [i \in 1..Len(events_paths) |-> path]
       \/ irfs_paths \in IrfPathLists
    /\ events_info = [f \in EventFiles |-> NoInfo]
    /\ mk_call = NoMkCall
    /\ mk_result = NoMkResult

\* No maker: no file is looked at.
MakerIdle ==
    /\ headers = [f \in EventFiles |-> [kind |-> NoKey, OBS_ID |-> 0]]
    /\ events_paths = <<>>
    /\ irfs_paths = <<>>
    /\ events_info = [f \in EventFiles |-> NoInfo]
    /\ mk_call = NoMkCall
    /\ mk_result = NoMkResult

\* CalDBIRF.from_meta(info).file_path: the first file of the directory
\* $CALDB/data/<telescop>/<caldb>/bcf/<irf>, taken to exist.
CaldbFilePath(caldb, irf) ==
    IF irf = "South_z20_50h" THEN "$CALDB/data/cta/1dc/bcf/South_z20_50h/irf_file.fits"
    ELSE "$CALDB/data/cta/1dc/bcf/North_z20_50h/irf_file.fits"

\* header.get(key, default).
HeaderGet(h, key, default) == IF h[key] = NoKey THEN default ELSE h[key]

\* DataStoreMaker.read_events_info(events_path, irf_path): the info, or the
\* key whose lookup raised KeyError.
ReadEventsInfo(events_path, irf_path) ==
    LET h == headers[events_path].kind
        obs_mode == HeaderGet(h, "OBS_MODE", "POINTING")
        read == IF obs_mode = "DRIFT" THEN <<"ALT_PNT", "AZ_PNT">>
                ELSE <<"RA_PNT", "DEC_PNT">>
        NotThere(key) == key \notin h.has
        absent == SelectSeq(read, NotThere)
        keys == IF obs_mode = "DRIFT" THEN {"ALT_PNT", "AZ_PNT", "ZEN_PNT"}
                ELSE {"RA_PNT", "DEC_PNT"}
        caldb == HeaderGet(h, "CALDB", NaStr)
        irf == HeaderGet(h, "IRF", NaStr)
        info ==
            [OBS_ID |-> headers[events_path].OBS_ID,
             keys |-> keys,
             RA_PNT |-> IF "RA_PNT" \in keys THEN h.RA_PNT ELSE 0,
             DEC_PNT |-> IF "DEC_PNT" \in keys THEN h.DEC_PNT ELSE 0,
             ALT_PNT |-> IF "ALT_PNT" \in keys THEN h.ALT_PNT ELSE 0,
             AZ_PNT |-> IF "AZ_PNT" \in keys THEN h.AZ_PNT ELSE 0,
             ZEN_PNT |-> IF "ZEN_PNT" \in keys THEN 90 - h.ALT_PNT ELSE 0,
             EVENTS_FILENAME |-> events_path,
             IRF_FILENAME |->
                 IF irf_path # NoPath THEN irf_path
                 ELSE IF caldb # NaStr /\ irf # NaStr
                 THEN CaldbFilePath(caldb, irf)
                 ELSE events_path,
             CALDB |-> caldb, IRF |-> irf, MJDREF |-> h.MJDREF]
    IN IF absent # <<>>
       THEN [status |-> "KeyError", key |-> Head(absent), info |-> NoInfo]
       \* pos = SkyCoord(info["RA_PNT"], info["DEC_PNT"], ...)
       ELSE IF "RA_PNT" \notin keys
       THEN [status |-> "KeyError", key |-> "RA_PNT", info |-> NoInfo]
       ELSE [status |-> "ok", key |-> "", info |-> info]

\* DataStoreMaker.get_events_info / get_obs_info: the header is read once
\* for each events path, with the irf path of that first call.
GetEventsInfo(cache, events_path, irf_path) ==
    IF cache[events_path] # NoInfo
    THEN [status |-> "ok", key |-> "", info |-> cache[events_path],
          cache |-> cache]
    ELSE LET out == ReadEventsInfo(events_path, irf_path)
         IN [status |-> out.status, key |-> out.key, info |-> out.info,
             cache |-> IF out.status = "ok"
                       THEN [cache EXCEPT ![events_path] = out.info]
                       ELSE cache]

\* The HDU_NAME get_hdu_table_rows gives each HDU_TYPE.
HduNameOf(t) ==
    CASE t = "events" -> "EVENTS"
      [] t = "gti" -> "GTI"
      [] t = "aeff" -> "EFFECTIVE AREA"
      [] t = "edisp" -> "ENERGY DISPERSION"
      [] t = "psf" -> "POINT SPREAD FUNCTION"
      [] OTHER -> "BACKGROUND"

\* DataStoreMaker.get_hdu_table_rows(events_path, irf_path), given the info:
\* two rows at the events file, four at the IRF file of the info.
HduTableRows(events_path, events_info_) ==
    LET Row(t, file) ==
            [OBS_ID |-> events_info_.OBS_ID, HDU_TYPE |-> t,
             HDU_CLASS |-> HduClassOf(t), HDU_NAME |-> HduNameOf(t),
             FILE |-> file]
    IN <<Row("events", events_path), Row("gti", events_path),
         Row("aeff", events_info_.IRF_FILENAME),
         Row("edisp", events_info_.IRF_FILENAME),
         Row("psf", events_info_.IRF_FILENAME),
         Row("bkg", events_info_.IRF_FILENAME)>>

\* zip(self.events_paths, self.irfs_paths) stops at the shorter list.
ZipLen(ep, ip) == IF Len(ep) <= Len(ip) THEN Len(ep) ELSE Len(ip)

RECURSIVE HduTableLoop(_, _, _, _, _)
\* The loop of make_hdu_table from pair i on.
HduTableLoop(ep, ip, i, cache, rows) ==
    IF i > ZipLen(ep, ip)
    THEN [status |-> IF rows = <<>> THEN "IndexError" ELSE "ok", key |-> "",
          rows |-> rows, cache |-> cache]
    ELSE LET got == GetEventsInfo(cache, ep[i], ip[i])
         IN IF got.status # "ok"
            THEN [status |-> got.status, key |-> got.key, rows |-> <<>>,
                  cache |-> got.cache]
            ELSE HduTableLoop(ep, ip, i + 1, got.cache,
                              rows \o HduTableRows(ep[i], got.info))

\* DataStoreMaker.make_hdu_table() on the cache given.
MakeHduTableOn(ep, ip, cache) == HduTableLoop(ep, ip, 1, cache, <<>>)

RECURSIVE ObsTableLoop(_, _, _, _, _)
\* The loop of make_obs_table from pair i on.
ObsTableLoop(ep, ip, i, cache, rows) ==
    IF i > ZipLen(ep, ip)
    THEN [status |-> "ok", key |-> "", rows |-> rows, cache |-> cache]
    ELSE LET got == GetEventsInfo(cache, ep[i], ip[i])
         IN IF got.status # "ok"
            THEN [status |-> got.status, key |-> got.key, rows |-> <<>>,
                  cache |-> got.cache]
            ELSE ObsTableLoop(ep, ip, i + 1, got.cache,
                              Append(rows, got.info))

\* gammapy.utils.time.unique_time_info: the time reference is the same in
\* every row.
UniqueTimeInfo(rows) ==
    \A i, j \in 1..Len(rows) : rows[i].MJDREF = rows[j].MJDREF

\* A make_obs_table that reads every events path, whatever the length of
\* irfs_paths.
MakeObsTableAllPaths(ep, ip, cache) ==
    LET all == [i \in 1..Len(ep) |-> IF i <= Len(ip) THEN ip[i] ELSE NoPath]
        loop == ObsTableLoop(ep, all, 1, cache, <<>>)
    IN IF loop.status # "ok" THEN loop
       ELSE IF loop.rows = <<>> THEN [loop EXCEPT !.status = "IndexError"]
       ELSE IF ~UniqueTimeInfo(loop.rows)
       THEN [loop EXCEPT !.status = "RuntimeError", !.rows = <<>>]
       ELSE loop

\* DataStoreMaker.make_obs_table() on the cache given.
MakeObsTableOn(ep, ip, cache) ==
    LET loop == ObsTableLoop(ep, ip, 1, cache, <<>>)
    IN IF loop.status # "ok" THEN loop
       ELSE IF loop.rows = <<>> THEN [loop EXCEPT !.status = "IndexError"]
       ELSE IF ~UniqueTimeInfo(loop.rows)
       THEN [loop EXCEPT !.status = "RuntimeError", !.rows = <<>>]
       ELSE loop

\* astropy.table.unique(obs_table, keys="OBS_ID"): the first row of each
\* OBS_ID, ascending.
UniqueObsId(rows) ==
    LET ids == {rows[i].OBS_ID : i \in 1..Len(rows)}
        First(id) == CHOOSE i \in 1..Len(rows) :
                         /\ rows[i].OBS_ID = id
                         /\ \A j \in 1..(i - 1) : rows[j].OBS_ID # id
        order == SortedSeq(ids)
    IN [k \in 1..Len(order) |-> rows[First(order[k])]]

\* The calls leave everything but the maker alone.
MakerFrame == UNCHANGED <<headers, events_paths, irfs_paths, pvars, svars, dvars, evars>>

\* maker.read_events_info(events_path, irf_path): a static method, the
\* cache is not touched.
CallReadEventsInfo(events_path, irf_path) ==
    /\ mk_call.name = "none"
    /\ mk_call' = [name |-> "read_events_info", events_path |-> events_path,
                   irf_path |-> irf_path]
    /\ LET out == ReadEventsInfo(events_path, irf_path)
       IN mk_result' = [NoMkResult EXCEPT !.status = out.status,
                                          !.key = out.key, !.info = out.info]
    /\ UNCHANGED events_info
    /\ MakerFrame

\* maker.make_hdu_table().
MakeHduTable ==
    /\ mk_call.name = "none"
    /\ mk_call' = [NoMkCall EXCEPT !.name = "make_hdu_table"]
    /\ LET out == MakeHduTableOn(events_paths, irfs_paths, events_info)
       IN /\ mk_result' = [NoMkResult EXCEPT !.status = out.status,
                                             !.key = out.key,
                                             !.hdu_table = out.rows]
          /\ events_info' = out.cache
    /\ MakerFrame

\* maker.make_obs_table().
MakeObsTable ==
    /\ mk_call.name = "none"
    /\ mk_call' = [NoMkCall EXCEPT !.name = "make_obs_table"]
    /\ LET out == MakeObsTableOn(events_paths, irfs_paths, events_info)
       IN /\ mk_result' = [NoMkResult EXCEPT !.status = out.status,
                                             !.key = out.key,
                                             !.obs_table = out.rows]
          /\ events_info' = out.cache
    /\ MakerFrame

\* maker.run(): both tables, and DataStore.__init__ on them.
Run ==
    /\ mk_call.name = "none"
    /\ mk_call' = [NoMkCall EXCEPT !.name = "run"]
    /\ LET hdu == MakeHduTableOn(events_paths, irfs_paths, events_info)
           obs == MakeObsTableOn(events_paths, irfs_paths, hdu.cache)
       IN IF hdu.status # "ok"
          THEN /\ mk_result' = [NoMkResult EXCEPT !.status = hdu.status,
                                                  !.key = hdu.key]
               /\ events_info' = hdu.cache
          ELSE IF obs.status # "ok"
          THEN /\ mk_result' = [NoMkResult EXCEPT !.status = obs.status,
                                                  !.key = obs.key]
               /\ events_info' = obs.cache
          ELSE /\ mk_result' = [NoMkResult EXCEPT
                                    !.status = "ok",
                                    !.hdu_table = hdu.rows,
                                    !.obs_table = UniqueObsId(obs.rows)]
               /\ events_info' = obs.cache
    /\ MakerFrame

MakerNext ==
    \/ \E events_path \in EventFiles, irf_path \in {NoPath} \cup IrfFiles :
           CallReadEventsInfo(events_path, irf_path)
    \/ MakeHduTable
    \/ MakeObsTable
    \/ Run

\* ---------------------------------------------------------------------
\* EventList: row selections on the events table.

\* Largest number of rows of an events table.
MaxRows == 2

\* The columns of the table that selections are made on.
Columns == {"ENERGY", "ZENITH_ANGLE"}

EnergyValues == {R(0), R(1), R(2), NaN}

ZenithValues == {R(1), R(2)}

\* The tables of m rows; EVENT_ID numbers the rows.
EventTables(m) ==
    {[i \in 1..m |-> [EVENT_ID |-> i, ENERGY |-> e[i], ZENITH_ANGLE |-> z[i]]] :
        e \in [1..m -> EnergyValues], z \in [1..m -> ZenithValues]}

\* The values a caller selects on.
ValueLists ==
    {<<R(0), R(2)>>, <<R(1), R(2)>>, <<R(1), R(1)>>, <<R(2), R(0)>>,
     <<R(1), PInf>>, <<R(0), R(2), R(1)>>, <<R(1)>>, <<NaN, R(2)>>}

NoEvCall ==
    [name |-> "none", parameter |-> "", values |-> <<>>, is_range |-> TRUE,
     table |-> <<>>]

NoEvResult == [status |-> "none", table |-> <<>>, warnings |-> <<>>]

\* EventList(table).
EventsInit ==
    /\ ev_table \in UNION {EventTables(m) : m \in 0..MaxRows}
    /\ ev_call = NoEvCall
    /\ ev_result = NoEvResult

EventsIdle ==
    /\ ev_table = <<>>
    /\ ev_call = NoEvCall
    /\ ev_result = NoEvResult

RECURSIVE RowSubset(_, _, _)
\* EventList.select_row_subset(mask): table[mask], a new table of the rows
\* whose mask entry is True, from row i on.
RowSubset(tbl, mask, i) ==
    IF i > Len(tbl) THEN <<>>
    ELSE (IF mask[i] THEN <<tbl[i]>> ELSE <<>>) \o RowSubset(tbl, mask, i + 1)

SelectRowSubset(tbl, mask) == RowSubset(tbl, mask, 1)

\* A range mask that keeps the upper edge.
RangeMaskClosed(tbl, column, lo, hi) ==
    [i \in 1..Len(tbl) |-> Leq(lo, tbl[i][column]) /\ Leq(tbl[i][column], hi)]

\* (lo <= col_data) & (col_data < hi).
RangeMask(tbl, column, lo, hi) ==
    [i \in 1..Len(tbl) |-> Leq(lo, tbl[i][column]) /\ Lt(tbl[i][column], hi)]

\* The mask of exact matches: NaN matches NaN, another value the equal one.
MatchMask(tbl, column, values) ==
    [i \in 1..Len(tbl) |->
        \E j \in 1..Len(values) :
            IF values[j] = NaN THEN tbl[i][column] = NaN
            ELSE tbl[i][column] = values[j]]

\* EventList.select_energy(energy_range).
SelectEnergyOutcome(tbl, energy_range) ==
    IF Len(energy_range) < 2
    THEN [NoEvResult EXCEPT !.status = "IndexError"]
    ELSE [NoEvResult EXCEPT
              !.status = "ok",
              !.table = SelectRowSubset(tbl, RangeMask(tbl, "ENERGY",
                                            energy_range[1], energy_range[2]))]

\* EventList.select_parameter(parameter, values, is_range).
SelectParameterOutcome(tbl, parameter, values, is_range) ==
    IF parameter \notin Columns
    THEN [NoEvResult EXCEPT !.status = "KeyError"]
    ELSE IF is_range
    THEN LET warned == IF Len(values) > 2 THEN <<"more_than_two">> ELSE <<>>
         IN IF Len(values) < 2
            THEN [NoEvResult EXCEPT !.status = "IndexError"]
            ELSE [NoEvResult EXCEPT
                      !.status = "ok", !.warnings = warned,
                      !.table = SelectRowSubset(tbl, RangeMask(tbl, parameter,
                                                    values[1], values[2]))]
    ELSE [NoEvResult EXCEPT
              !.status = "ok",
              !.table = SelectRowSubset(tbl, MatchMask(tbl, parameter, values))]

\* events.select_energy(energy_range), one call on each event list.
SelectEnergy(energy_range) ==
    /\ ev_call.name = "none"
    /\ ev_call' = [NoEvCall EXCEPT !.name = "select_energy",
                                   !.parameter = "ENERGY",
                                   !.values = energy_range,
                                   !.table = ev_table]
    /\ ev_result' = SelectEnergyOutcome(ev_table, energy_range)
    /\ UNCHANGED <<ev_table, pvars, svars, dvars, mvars>>

\* events.select_parameter(parameter, values, is_range).
SelectParameter(parameter, values, is_range) ==
    /\ ev_call.name = "none"
    /\ ev_call' = [NoEvCall EXCEPT !.name = "select_parameter",
                                   !.parameter = parameter,
                                   !.values = values,
                                   !.is_range = is_range,
                                   !.table = ev_table]
    /\ ev_result' = SelectParameterOutcome(ev_table, parameter, values, is_range)
    /\ UNCHANGED <<ev_table, pvars, svars, dvars, mvars>>

EventsNext ==
    \/ \E energy_range \in ValueLists : SelectEnergy(energy_range)
    \/ \E parameter \in Columns \cup {"PHASE"}, values \in ValueLists,
          is_range \in BOOLEAN :
           SelectParameter(parameter, values, is_range)

\* Everything outside the Parameter classes, untouched.
DataIdle == StoreIdle /\ MakerIdle /\ EventsIdle

InitMaker == MakerInit /\ ParamIdle /\ SetIdle /\ StoreIdle /\ EventsIdle

SpecMaker == InitMaker /\ [][MakerNext]_vars

\* An EventList alone.
InitEvents == EventsInit /\ ParamIdle /\ SetIdle /\ StoreIdle /\ MakerIdle

SpecEvents == InitEvents /\ [][EventsNext]_vars

NoIds == [given |-> FALSE, list |-> <<>>]

NoSelection == [given |-> FALSE, keep |-> {}]

StoreNext ==
    \/ \E id \in AskIds, req \in RequiredIrfChoices, re \in BOOLEAN :
           Obs(id, req, re)
    \/ \E ids \in {NoIds} \cup {[given |-> TRUE, list |-> q] : q \in IdLists},
          skip \in BOOLEAN, req \in RequiredIrfChoices, re \in BOOLEAN,
          selection \in {NoSelection}
              \cup {[given |-> TRUE, keep |-> S] : S \in Selections} :
           GetObservations(ids, skip, req, re, selection)

\* A DataStore alone.
InitStore == StoreInit /\ ParamIdle /\ SetIdle /\ MakerIdle /\ EventsIdle

SpecStore == InitStore /\ [][StoreNext]_vars

SetNext ==
    \/ \E i \in 1..MaxSlots, v \in SetValues : SetParValue(i, v)
    \/ \E i \in 1..MaxSlots, b \in BOOLEAN : SetParFrozen(i, b)
    \/ \E rv \in BOOLEAN : RestoreStatus(rv)
    \/ Enter
    \/ \E error \in BOOLEAN : Exit(error)

\* A container alone; the single Parameter stays as constructed.
InitSet == SetInit /\ ParamIdle /\ DataIdle

SpecSet == InitSet /\ [][SetNext]_vars

ParamNext ==
    \/ \E v \in Values, raises \in BOOLEAN : SetValue(v, raises)
    \/ \E f \in Factors : SetFactor(f)
    \/ ResetAutoscale
    \/ \E m \in Methods \cup {"invalid"} : SetScaleMethod(m)
    \/ \E t \in Transforms \cup {"invalid"} : SetScaleTransform(t)
    \/ \E raises \in BOOLEAN : Autoscale(raises)

\* The bulk setters and update_link_label on a container.
BulkNext ==
    \/ \E attr \in BulkAttrs :
           \E xs \in UNION {BulkArrays(attr, m) : m \in BulkLengths(Len(slots))} :
               BulkSet(attr, xs)
    \/ \E sfx \in [ParIds -> Suffixes] : UpdateLinkLabel(sfx)

\* A container, its copy, and assignments to the objects of either.
CopyNext ==
    \/ Copy
    \/ \E i \in 1..MaxSlots : CopyParameter(i)
    \/ \E i \in 1..MaxSlots, attr \in CopyAttrs : AssignOriginal(i, attr, R(2))
    \/ \E j \in 1..MaxSlots, attr \in CopyAttrs : AssignCopy(j, attr, R(2))

SpecCopy == InitSet /\ [][CopyNext]_vars

InitBulk == FromDictInit /\ ParamIdle /\ DataIdle

SpecBulk == InitBulk /\ [][BulkNext]_vars

\* A container under the optimizer.
FactorsNext ==
    \E m \in 0..(MaxSlots + 1) : \E factors \in FactorArrays(m) :
        SetParameterFactors(factors)

InitFactors == FactorsInit /\ ParamIdle /\ DataIdle

SpecFactors == InitFactors /\ [][FactorsNext]_vars

\* Assignments to the frozen flags of the objects of a container.
FrozenNext == \E i \in 1..MaxSlots, val \in FrozenArgs : AssignFrozen(i, val)

SpecFrozen == InitSet /\ [][FrozenNext]_vars

\* A Parameter and its bounds; the container stays empty.
InitLim == LimInit /\ SetIdle /\ DataIdle

SpecLim == InitLim /\ [][LimNext]_vars

\* A bounded Parameter under the optimizer; the container stays empty.
InitOrder == OrderInit /\ SetIdle /\ DataIdle

SpecOrder == InitOrder /\ [][OrderNext]_vars

\* A Parameter alone; the container stays empty.
InitParam == ParamInit /\ SetIdle /\ DataIdle

SpecParam == InitParam /\ [][ParamNext]_vars

\* value and factor assignments alone: scale, scale_method and
\* scale_transform stay as constructed.
NextVF ==
    \/ \E v \in Values, raises \in BOOLEAN : SetValue(v, raises)
    \/ \E f \in Factors : SetFactor(f)

SpecVF == InitParam /\ [][NextVF]_vars

\* ------------------------------------------------------------ properties
\* value and factor agree through the current scale and transform.
RoundTrip ==
    /\ value = InverseTransform(scale_transform, scale, factor)
    /\ factor = Transform(scale_transform, scale, value)

\* C1 as stated: after any sequence of value and factor assignments, value
\* equals inverse_transform(factor) and factor equals transform(value).
C1_RoundTripAlways == op \in {"value", "factor"} => RoundTrip

\* C1 amended: the same, for a value in the domain of the scale transform
\* (under "log", a value that is not negative).
C1_RoundTripInDomain ==
    (op \in {"value", "factor"}
        /\ (scale_transform = "log" => ~Lt(value, Zero)))
    => RoundTrip

C1_Witness ==
    /\ op = "factor"
    /\ scale_transform = "log"
    /\ scale = One
    /\ factor = R(1)
    /\ value = E(1)
    /\ v0 = E(-1)

NormalOps ==
    {"init", "value", "factor", "scale_method", "scale_transform",
     "autoscale", "reset_autoscale"}

\* C2: in every state reached by a normally returning operation, factor
\* equals interp_scale(value) / scale (stated on the states where
\* interp_scale(value) is finite).
C2_FactorIsTransformOfValue ==
    (op \in NormalOps /\ IsFin(InterpScale(scale_transform, value)))
    => factor = Transform(scale_transform, scale, value)

\* The transformed value the last operation started from.
Tv0 == InterpScale(scale_transform, v0)

\* C3: autoscale() leaves value as it was before the call (stated for a
\* value whose transform is finite).
C3_AutoscaleKeepsValue == (op = "autoscale" /\ IsFin(Tv0)) => value = v0

\* C4: autoscale() followed by reset_autoscale() leaves factor = value,
\* scale = 1 and value as it was before the two calls (stated for a value
\* whose transform is finite).
C4_AutoscaleThenReset ==
    (op = "reset_autoscale" /\ a0.on
        /\ IsFin(InterpScale(scale_transform, a0.v)))
    => (factor = value /\ scale = One /\ value = a0.v)

IsPow10(a) == \E j \in Log10Range : a = Pow10(j)

\* C5: under "scale10", after autoscale() of a non-zero (finite) transformed
\* value tv, scale is the power of ten with scale <= |tv| < 10 * scale, and
\* 1 <= |factor| < 10; value 2.0 under "lin" gives scale 1 and factor 2.
C5_Scale10 ==
    (op = "autoscale" /\ scale_method = "scale10" /\ IsFin(Tv0) /\ Tv0 # Zero)
    => /\ IsPow10(scale)
       /\ Leq(scale, Abs(Tv0))
       /\ Lt(Abs(Tv0), Mul(R(10), scale))
       /\ Leq(One, Abs(factor))
       /\ Lt(Abs(factor), R(10))
       /\ (scale_transform = "lin" /\ v0 = R(2))
              => (scale = One /\ factor = R(2))

C5_Witness ==
    /\ op = "autoscale"
    /\ scale_method = "scale10"
    /\ scale_transform = "sqrt"
    /\ v0 = Q(1, 4)
    /\ scale = Q(1, 10)
    /\ factor = R(5)

\* C6: after autoscale() under "scale10" or "factor1" of a non-zero (finite)
\* transformed value, scale is strictly positive and factor carries the sign.
C6_ScalePositive ==
    (op = "autoscale" /\ scale_method \in {"scale10", "factor1"}
        /\ IsFin(Tv0) /\ Tv0 # Zero)
    => (Lt(Zero, scale) /\ Sgn(factor) = Sgn(Tv0))

\* C7: when a restore_status(restore_values=True) scope is left, normally or
\* by an error, every parameter's value and frozen flag equal the snapshot
\* taken for its slot.
C7_RestoredOnExit ==
    (cm.state = "exited" /\ cm.restore_values)
    => \A i \in 1..Len(slots) :
           /\ pars[slots[i]].value = cm.values[i]
           /\ pars[slots[i]].frozen = cm.frozen[i]

\* The scope was left by an error with a value and a frozen flag off the
\* snapshot, one of them on a parameter that occupies two slots.
C7_Witness ==
    /\ cm.state = "exited" /\ cm.restore_values /\ cm.error
    /\ \E i, j \in 1..Len(slots) :
           /\ i # j /\ slots[i] = slots[j]
           /\ at_exit[slots[i]].value # cm.values[i]
    /\ \E i \in 1..Len(slots) : at_exit[slots[i]].frozen # cm.frozen[i]

\* C8: what the scope restores on exit is the state of the parameters when
\* the scope was entered (__enter__).
C8_RestoresStateAtEnter ==
    (cm.state = "exited" /\ cm.restore_values)
    => \A i \in 1..Len(slots) :
           /\ pars[slots[i]].value = at_enter[slots[i]].value
           /\ pars[slots[i]].frozen = at_enter[slots[i]].frozen

Range(q) == {q[i] : i \in DOMAIN q}

NoRepeat(q) == \A i, j \in DOMAIN q : i # j => q[i] # q[j]

FirstIndex(q, e) == CHOOSE i \in DOMAIN q : q[i] = e /\ \A j \in 1..(i - 1) : q[j] # e

\* q holds its elements in the order of their first occurrence in r.
InOrderOf(q, r) ==
    \A i, j \in DOMAIN q : i < j => FirstIndex(r, q[i]) < FirstIndex(r, q[j])

\* C9: len(free_unique_parameters) <= len(unique_parameters) <= len(set);
\* the first is an equality exactly when no unique parameter is frozen, the
\* second exactly when no parameter occupies more than one slot.
C9_Lengths ==
    /\ Len(FreeUniqueParameters) <= Len(UniqueParameters)
    /\ Len(UniqueParameters) <= Len(slots)
    /\ (Len(FreeUniqueParameters) = Len(UniqueParameters))
           <=> (\A p \in Range(slots) : ~pars[p].frozen)
    /\ (Len(UniqueParameters) = Len(slots)) <=> NoRepeat(slots)

C9_Witness ==
    /\ Len(slots) = 3
    /\ Len(UniqueParameters) = 2
    /\ Len(FreeUniqueParameters) = 1

\* C10: unique_parameters holds each referenced object once, by identity (two
\* objects of equal name and value are both kept), in order of first
\* occurrence; free_unique_parameters is that sequence without the frozen
\* objects, in the same order.
C10_UniqueByIdentity ==
    /\ Range(UniqueParameters) = Range(slots)
    /\ NoRepeat(UniqueParameters)
    /\ InOrderOf(UniqueParameters, slots)
    /\ Range(FreeUniqueParameters)
           = {p \in Range(UniqueParameters) : ~pars[p].frozen}
    /\ NoRepeat(FreeUniqueParameters)
    /\ InOrderOf(FreeUniqueParameters, UniqueParameters)

C10_Witness ==
    /\ slots = <<2, 1, 2>>
    /\ pars[1].name = pars[2].name /\ pars[1].value = pars[2].value
    /\ UniqueParameters = <<2, 1>>
    /\ pars[2].frozen
    /\ FreeUniqueParameters = <<1>>

\* The last slot that references the object of slot i.
LastSlotOf(i) ==
    CHOOSE j \in i..Len(slots) :
        slots[j] = slots[i] /\ \A h \in (j + 1)..Len(slots) : slots[h] # slots[i]

IsBulkCall == sop.name \in {"bulk", "bulk_raised"}

\* C11: a bulk assignment to value, min or max of a sequence whose length
\* differs from len(set) raises and leaves every parameter as it was; with
\* the matching length the assignments par_i.attr = element i are made in
\* slot order: every object holds the element of its last slot, so slot i
\* holds element i where no later slot references the same object.
C11_BulkAssign ==
    IsBulkCall =>
        /\ (Len(sop.given) # Len(slots))
               <=> (sop.name = "bulk_raised")
        /\ sop.name = "bulk_raised" => pars = before
        /\ sop.name = "bulk" =>
               /\ \A i \in 1..Len(slots) :
                      AttrOf(pars[slots[i]], sop.attr)
                          = LimitOf(sop.given[LastSlotOf(i)])
               /\ NoRepeat(slots) =>
                      \A i \in 1..Len(slots) :
                          AttrOf(pars[slots[i]], sop.attr) = LimitOf(sop.given[i])
               /\ \A p \in HeapIds \ Range(slots) : pars[p] = before[p]

\* A too long sequence was refused after an earlier assignment went through.
C11_Witness ==
    /\ sop.name = "bulk_raised"
    /\ Len(slots) = 2 /\ Len(sop.given) = 3
    /\ pars = before
    /\ pars[slots[1]].value = R(2) /\ pars[slots[2]].value = R(3)

\* The number of slots that reference the object p.
SlotCount(p) == Cardinality({i \in 1..Len(slots) : slots[i] = p})

\* C12: after update_link_label() every parameter in two or more slots has a
\* label "<name>@<suffix>" with its own name, and a parameter in exactly one
\* slot has the label it had before the call.
C12_LinkLabels ==
    sop.name = "update_link_label" =>
        \A p \in Range(slots) :
            /\ SlotCount(p) >= 2 =>
                   /\ pars[p].label.name = pars[p].name
                   /\ pars[p].label.suffix \in Suffixes
            /\ SlotCount(p) = 1 => pars[p].label = before[p].label

\* One parameter in two slots was labelled, one in a single slot kept the
\* label it was loaded with.
C12_Witness ==
    /\ sop.name = "update_link_label"
    /\ slots = <<2, 1, 2>>
    /\ pars[2].label = [name |-> "amplitude", suffix |-> "c3d4"]
    /\ pars[1].label = LoadedLabel

\* value - large_step * 1e5 and value + large_step * 1e5.
FarBelow == Sub(value, Mul(LargeStep, R(LargeFactor)))

FarAbove == Add(value, Mul(LargeStep, R(LargeFactor)))

\* C13 as stated: with min NaN, conf_min <= value - large_step * 1e5; with
\* max NaN, conf_max >= value + large_step * 1e5, for every sign of value; a
\* bound that is set is returned unchanged.
C13_ConfBounds ==
    /\ min.k = "nan" => Leq(ConfMin, FarBelow)
    /\ max.k = "nan" => Leq(FarAbove, ConfMax)
    /\ min.k # "nan" => ConfMin = min
    /\ max.k # "nan" => ConfMax = max

\* C13 amended: the derived bounds lie large_step * 1e5 away from zero, not
\* from value: conf_min <= -large_step * 1e5 and conf_max >= large_step * 1e5,
\* which is at least large_step * 1e5 below value where value >= 0 and above
\* value where value <= 0; neither exceeds value -/+ step * scan_n_sigma; a
\* bound that is set is returned unchanged.
C13_ConfBoundsFromZero ==
    /\ min.k = "nan" =>
           /\ Leq(ConfMin, Mul(Neg(LargeStep), R(LargeFactor)))
           /\ Leq(ConfMin, Sub(value, Mul(Step, R(scan_n_sigma))))
           /\ Leq(Zero, value) => Leq(ConfMin, FarBelow)
    /\ max.k = "nan" =>
           /\ Leq(Mul(LargeStep, R(LargeFactor)), ConfMax)
           /\ Leq(Add(value, Mul(Step, R(scan_n_sigma))), ConfMax)
           /\ Leq(value, Zero) => Leq(FarAbove, ConfMax)
    /\ min.k # "nan" => ConfMin = min
    /\ max.k # "nan" => ConfMax = max

\* min was set back to None on a parameter of value 1 and error 3: the
\* clamp decides conf_min, and conf_max is the max that is set.
C13_Witness ==
    /\ op = "min"
    /\ min.k = "nan" /\ max = R(3)
    /\ value = R(1) /\ par_error = R(3)
    /\ ConfMin = R(-300000)
    /\ ConfMax = R(3)

\* C14: after set_lim(min=mn, max=mx), min is NaN where mn was None and max
\* is NaN where mx was None; another argument is stored as by the setters.
C14_SetLimNone ==
    op = "set_lim" =>
        /\ min = LimitOf(lim.min)
        /\ max = LimitOf(lim.max)

\* C15: Parameter.copy() gives a new object with the fields of the original;
\* Parameters.copy() gives a list none of whose slots references an object of
\* the original, with equal fields slot by slot, in which two slots share an
\* object exactly when the original's slots do; the call leaves the original
\* as it was, and a later assignment to an object of the copy (of the
\* original) leaves every object of the original (of the copy) as it was.
C15_CopyIndependent ==
    /\ sop.name = "copy" =>
           /\ Len(cslots) = Len(slots)
           /\ \A i \in 1..Len(slots) :
                  /\ ~Member(slots, cslots[i])
                  /\ pars[cslots[i]] = pars[slots[i]]
                  /\ pars[slots[i]] = before[slots[i]]
           /\ \A i, j \in 1..Len(slots) :
                  (cslots[i] = cslots[j]) <=> (slots[i] = slots[j])
    /\ sop.name = "copy_parameter" =>
           /\ Len(cslots) = 1
           /\ ~Member(slots, cslots[1])
           /\ pars[cslots[1]] = pars[slots[sop.slot]]
           /\ pars[slots[sop.slot]] = before[slots[sop.slot]]
    /\ sop.name = "assign_copy" =>
           \A i \in 1..Len(slots) : pars[slots[i]] = before[slots[i]]
    /\ sop.name = "assign_original" =>
           \A j \in 1..Len(cslots) : pars[cslots[j]] = before[cslots[j]]

\* A set with a shared parameter was copied, and min of the copy's shared
\* object was then assigned: the original keeps its own.
C15_Witness ==
    /\ sop.name = "assign_copy" /\ sop.attr = "min"
    /\ slots = <<1, 2, 1>>
    /\ cslots[1] = cslots[3] /\ cslots[1] # cslots[2]
    /\ pars[slots[1]].min = NaN /\ pars[cslots[1]].min = R(2)

\* The observation id has rows in the HDU index table.
Indexed(id) == \E row \in hdu_table : row.OBS_ID = id

\* The types among required for which the table has no row of the id.
Lacking(id, required) ==
    {t \in required :
        ~\E row \in hdu_table : row.OBS_ID = id /\ row.HDU_TYPE = t}

\* The last call was given a required_irf that obs() accepts.
Accepted == RequiredIrfError(ds_call.required_irf) = ""

\* The effective required set of the last call.
Effective == RequiredHdus(ds_call.required_irf, ds_call.require_events)

\* C16: obs() on an indexed id (with a required_irf it accepts) raises
\* MissingRequiredHDU exactly when a type of the effective required set
\* (required_irf, plus events and gti iff require_events) has no location,
\* and the error names all of them; "point-like" without edisp names edisp.
C16_MissingBatched ==
    (ds_call.name = "obs" /\ Indexed(ds_call.obs_id) /\ Accepted) =>
        /\ (ds_result.status = "MissingRequiredHDU")
               <=> (Lacking(ds_call.obs_id, Effective) # {})
        /\ ds_result.status # "MissingRequiredHDU" => ds_result.status = "ok"
        /\ Range(ds_result.missing) = Lacking(ds_call.obs_id, Effective)
        /\ (ds_call.required_irf = Preset("point-like")
                /\ Lacking(ds_call.obs_id, {"edisp"}) # {})
               => \E i \in 1..Len(ds_result.missing) :
                      ds_result.missing[i] = "edisp"

\* Two required types are missing and both are named.
C16_Witness ==
    /\ ds_call.name = "obs"
    /\ ds_call.required_irf = Preset("full-enclosure")
    /\ ds_result.status = "MissingRequiredHDU"
    /\ ds_result.missing = <<"edisp", "psf">>

\* get_observations() with obs_id, skip_missing and selection at their
\* defaults.
IsPlainBatch ==
    /\ ds_call.name = "get_observations"
    /\ ~ds_call.ids.given /\ ~ds_call.skip_missing /\ ~ds_call.selection.given

DocKeys == {"events", "gti", "aeff", "bkg", "edisp", "psf", "rad_max"}

\* C18: obs() accepts a list of keys among events, gti, aeff, bkg, edisp,
\* psf, rad_max and requires each listed type; a list with another key
\* raises ValueError.
C18_ListedKeysAccepted ==
    (ds_call.name = "obs" /\ Indexed(ds_call.obs_id)
        /\ ds_call.required_irf.kind = "list") =>
        IF Range(ds_call.required_irf.list) \subseteq DocKeys
        THEN /\ ds_result.status \in {"ok", "MissingRequiredHDU"}
             /\ (ds_result.status = "MissingRequiredHDU")
                    <=> (Lacking(ds_call.obs_id, Effective) # {})
        ELSE ds_result.status = "ValueError"

\* C19: when obs() succeeds with an events location, the pointing and meta
\* entries are that location with hdu_class "pointing" and
\* "observation_metadata" (whatever pointing location the index holds) and
\* the events entry keeps its hdu_class; without an events location there
\* is no meta entry and pointing is what the index holds.
C19_DerivedLocations ==
    (ds_call.name = "obs" /\ ds_result.status = "ok") =>
        LET events == HduLocation(hdu_table, ds_call.obs_id, "events")
            kwargs == ds_result.kwargs
        IN IF events # NoLoc
           THEN /\ kwargs["events"] = events
                /\ kwargs["pointing"] = [events EXCEPT !.hdu_class = "pointing"]
                /\ kwargs["meta"]
                       = [events EXCEPT !.hdu_class = "observation_metadata"]
           ELSE /\ kwargs["events"] = NoLoc
                /\ kwargs["meta"] = NoLoc
                /\ kwargs["pointing"]
                       = HduLocation(hdu_table, ds_call.obs_id, "pointing")

\* The index holds a pointing row and an events row: the pointing entry is
\* the retagged events location.
C19_Witness ==
    /\ ds_call.name = "obs" /\ ds_result.status = "ok"
    /\ HduLocation(hdu_table, ds_call.obs_id, "pointing") # NoLoc
    /\ ds_result.kwargs["events"].hdu_class = "events"
    /\ ds_result.kwargs["pointing"].hdu_type = "events"
    /\ ds_result.kwargs["pointing"].hdu_class = "pointing"
    /\ ds_result.kwargs["meta"].hdu_class = "observation_metadata"

\* C20: get_observations(obs_id=ids, skip_missing=True) (with a required_irf
\* that obs() accepts) does not raise and returns the observations of
\* exactly the requested ids that are indexed and have every required HDU,
\* in the order requested.
C20_SkipsBadObservations ==
    (ds_call.name = "get_observations" /\ ds_call.ids.given
        /\ ds_call.skip_missing /\ ~ds_call.selection.given /\ Accepted) =>
        LET Good(id) == Indexed(id) /\ Lacking(id, Effective) = {}
        IN /\ ds_result.status = "ok"
           /\ ds_result.ids = SelectSeq(ds_call.ids.list, Good)
           /\ Len(ds_result.obs) = Len(ds_result.ids)
           /\ \A i \in 1..Len(ds_result.obs) :
                  ds_result.obs[i] = ObsKwargs(hdu_table, ds_result.ids[i])

\* Of three requested ids one is not indexed and one lacks a required HDU:
\* the third is returned.
C20_Witness ==
    /\ ds_call.name = "get_observations"
    /\ ds_call.skip_missing /\ ~ds_call.selection.given
    /\ ds_call.ids.list = <<1, NObs + 1, 2>>
    /\ ds_result.status = "ok"
    /\ ds_result.ids = <<2>>
    /\ ds_result.warnings = <<"missing_obs_id", "missing_hdus">>

\* The ids of q ascend.
Ascending(q) == \A i, j \in 1..Len(q) : i < j => q[i] < q[j]

\* C21: the observations get_observations returns are in ascending OBS_ID
\* order whenever obs_id is None, with or without a selection mask, and in
\* the order of the requested ids when obs_id is given.
C21_ReturnedOrder ==
    (ds_call.name = "get_observations" /\ ds_result.status = "ok") =>
        IF ds_call.ids.given
        THEN LET Returned(id) ==
                     \E i \in 1..Len(ds_result.ids) : ds_result.ids[i] = id
             IN ds_result.ids = SelectSeq(ds_call.ids.list, Returned)
        ELSE Ascending(ds_result.ids)

\* The OBS_ID values of the rows of a table.
ObsIdsOf(rows) == {rows[i].OBS_ID : i \in 1..Len(rows)}

\* C22: the DataStore that DataStoreMaker.run() returns has the same set of
\* OBS_ID values in its observation table and in its HDU index table, also
\* for event files that share an OBS_ID; the observation table holds each
\* OBS_ID once.
C22_SameObsIds ==
    (mk_call.name = "run" /\ mk_result.status = "ok") =>
        /\ mk_result.hdu_table # <<>>
        /\ ObsIdsOf(mk_result.obs_table) = ObsIdsOf(mk_result.hdu_table)
        /\ \A i, j \in 1..Len(mk_result.obs_table) :
               i # j => mk_result.obs_table[i].OBS_ID
                            # mk_result.obs_table[j].OBS_ID

\* run() returned for two event files that share an OBS_ID.
C22_Witness ==
    /\ mk_call.name = "run" /\ mk_result.status = "ok"
    /\ events_paths = <<"run1.fits", "run2.fits">>
    /\ headers["run1.fits"].OBS_ID = headers["run2.fits"].OBS_ID
    /\ Len(mk_result.obs_table) = 1
    /\ Len(mk_result.hdu_table) = 12

\* The rows of a table for one (OBS_ID, HDU_TYPE) pair.
MatchingRows(rows, id, t) ==
    {i \in 1..Len(rows) : rows[i].OBS_ID = id /\ rows[i].HDU_TYPE = t}

\* C23: in the HDU index table built by DataStoreMaker each
\* (OBS_ID, HDU_TYPE) pair occurs in at most one row.
C23_OneRowPerPair ==
    (mk_call.name \in {"make_hdu_table", "run"} /\ mk_result.status = "ok") =>
        \A id \in ObsIds, t \in {ALL_HDUS[i] : i \in 1..Len(ALL_HDUS)} :
            Cardinality(MatchingRows(mk_result.hdu_table, id, t)) <= 1

\* The IRF file the claim names for the i-th events path.
ExpectedIrfFile(i) ==
    LET h == headers[events_paths[i]].kind
    IN IF i <= Len(irfs_paths) /\ irfs_paths[i] # NoPath THEN irfs_paths[i]
       ELSE IF h.CALDB # NoKey /\ h.IRF # NoKey
       THEN CaldbFilePath(h.CALDB, h.IRF)
       ELSE events_paths[i]

\* C24: for every path in events_paths, whatever irfs_paths is,
\* make_hdu_table emits exactly six rows with that file's OBS_ID, of types
\* events, gti, aeff, edisp, psf, bkg: events and gti at the events file, the
\* four others at the explicit irf path, else the CALDB file, else the
\* events file.
C24_SixRowsPerFile ==
    (mk_call.name = "make_hdu_table" /\ mk_result.status = "ok") =>
        LET rows == mk_result.hdu_table
            types == <<"events", "gti", "aeff", "edisp", "psf", "bkg">>
        IN /\ Len(rows) = 6 * Len(events_paths)
           /\ \A i \in 1..Len(events_paths) : \A k \in 1..6 :
                  LET row == rows[6 * (i - 1) + k]
                  IN /\ row.OBS_ID = headers[events_paths[i]].OBS_ID
                     /\ row.HDU_TYPE = types[k]
                     /\ row.FILE = IF k <= 2 THEN events_paths[i]
                                   ELSE ExpectedIrfFile(i)

\* C25: read_events_info on a header with OBS_MODE=DRIFT that carries
\* ALT_PNT and AZ_PNT succeeds and returns ALT_PNT, AZ_PNT and
\* ZEN_PNT = 90 - ALT_PNT; for any other OBS_MODE (the header carrying
\* RA_PNT and DEC_PNT) it returns RA_PNT and DEC_PNT from the header.
C25_DriftPointing ==
    (mk_call.name = "read_events_info") =>
        LET h == headers[mk_call.events_path].kind
            info == mk_result.info
        IN IF h.OBS_MODE = "DRIFT"
           THEN {"ALT_PNT", "AZ_PNT"} \subseteq h.has =>
                    /\ mk_result.status = "ok"
                    /\ {"ALT_PNT", "AZ_PNT", "ZEN_PNT"} \subseteq info.keys
                    /\ info.ALT_PNT = h.ALT_PNT /\ info.AZ_PNT = h.AZ_PNT
                    /\ info.ZEN_PNT = 90 - h.ALT_PNT
           ELSE {"RA_PNT", "DEC_PNT"} \subseteq h.has =>
                    /\ mk_result.status = "ok"
                    /\ {"RA_PNT", "DEC_PNT"} \subseteq info.keys
                    /\ info.RA_PNT = h.RA_PNT /\ info.DEC_PNT = h.DEC_PNT

\* C26: select_energy(range) and select_parameter(column, values,
\* is_range=True) return a new event list holding exactly the rows with
\* values[0] <= x < values[1] (only the first two entries of values count),
\* in their original order, and the original table is unchanged.
C26_HalfOpenSelection ==
    ((ev_call.name = "select_energy"
        \/ (ev_call.name = "select_parameter" /\ ev_call.is_range
               /\ ev_call.parameter \in Columns))
        /\ Len(ev_call.values) >= 2) =>
        LET InRange(row) ==
                /\ Leq(ev_call.values[1], row[ev_call.parameter])
                /\ Lt(row[ev_call.parameter], ev_call.values[2])
        IN /\ ev_result.status = "ok"
           /\ ev_result.table = SelectSeq(ev_call.table, InRange)
           /\ ev_table = ev_call.table

\* Three values were given; of two rows the one on the lower edge is kept
\* and the one on the upper edge is not.
C26_Witness ==
    /\ ev_call.name = "select_parameter" /\ ev_call.is_range
    /\ ev_call.parameter = "ENERGY"
    /\ ev_call.values = <<R(0), R(2), R(1)>>
    /\ Len(ev_table) = 2
    /\ ev_table[1].ENERGY = R(2) /\ ev_table[2].ENERGY = R(0)
    /\ ev_result.status = "ok"
    /\ ev_result.warnings = <<"more_than_two">>
    /\ Len(ev_result.table) = 1 /\ ev_result.table[1].EVENT_ID = 2

\* The number of non-frozen slots among the first i.
FreeSlotsUpTo(i) ==
    Cardinality({j \in 1..i : ~before[slots[j]].frozen})

\* C27: set_parameter_factors(factors) assigns factors[i] to the i-th
\* non-frozen slot in set order and recomputes the value of that parameter
\* as inverse_transform(factor); frozen parameters keep factor and value; a
\* non-frozen parameter in k slots consumes k entries and ends with the last.
C27_FactorsToFreeSlots ==
    (sop.name = "set_parameter_factors") =>
        /\ Len(sop.given) >= FreeSlotsUpTo(Len(slots))
        /\ \A p \in HeapIds :
               IF (\E i \in 1..Len(slots) : slots[i] = p) /\ ~before[p].frozen
               THEN LET last == CHOOSE i \in 1..Len(slots) :
                                    /\ slots[i] = p
                                    /\ \A j \in (i + 1)..Len(slots) : slots[j] # p
                        f == sop.given[FreeSlotsUpTo(last)]
                    IN pars[p] =
                           [before[p] EXCEPT
                                !.factor = f,
                                !.value = InverseTransform(
                                              before[p].scale_transform,
                                              before[p].scale, f)]
               ELSE pars[p] = before[p]

\* A frozen parameter comes first and a non-frozen one with scale 10 and the
\* "sqrt" transform fills the two slots after it: it consumed two factors.
C27_Witness ==
    /\ sop.name = "set_parameter_factors"
    /\ slots = <<1, 2, 2>>
    /\ pars[1].frozen /\ pars[1].factor = R(1)
    /\ pars[2].scale_transform = "sqrt" /\ pars[2].scale = R(10)
    /\ sop.given = <<R(2), R(3)>>
    /\ pars[2].factor = R(3) /\ pars[2].value = R(900)

\* C28: for a Parameter with non-NaN bounds and min <= value <= max, in
\* every state reached by value assignments and autoscale() under any
\* scale_method, factor_min <= factor <= factor_max (stated where the
\* scale transform of min, value and max is a finite number).
C28_FactorOrder ==
    (/\ Leq(min, value) /\ Leq(value, max)
     /\ op \in {"init", "value", "autoscale"}
     /\ IsFin(InterpScale(scale_transform, min))
     /\ IsFin(InterpScale(scale_transform, value))
     /\ IsFin(InterpScale(scale_transform, max))) =>
        Leq(FactorMin, factor) /\ Leq(factor, FactorMax)

\* C29: the frozen flag is a boolean in every reachable state: assigning
\* the string "True" stores True and the string "False" stores False, and
\* assigning a value that is neither a boolean nor one of these two strings
\* raises TypeError and leaves frozen unchanged.
C29_FrozenStrings ==
    (sop.attr = "frozen") =>
        LET val == sop.given[1]
            p == slots[sop.slot]
        IN /\ \A q \in HeapIds : pars[q].frozen \in BOOLEAN
           /\ val = Str("True") => (sop.name = "frozen" /\ pars[p].frozen)
           /\ val = Str("False") => (sop.name = "frozen" /\ ~pars[p].frozen)
           /\ val.kind \in {"bool", "np.bool_"} =>
                  (sop.name = "frozen" /\ pars[p].frozen = val.b)
           /\ (val.kind \notin {"bool", "np.bool_"}
                  /\ val \notin {Str("True"), Str("False")}) =>
                  (sop.name = "frozen_raised" /\ pars = before)

\* C30 as stated: after a bulk assignment of v with len(v) = len(set),
\* reading the attribute back returns v element for element, also where one
\* Parameter occupies several slots.
C30_RoundTrip ==
    (sop.name = "bulk") => BulkGet(pars, sop.attr) = sop.given

\* C30, amended: reading back returns at slot i the element given to the last
\* slot that holds the same Parameter, None read as NaN; so v comes back
\* element for element exactly when it holds no None and gives equal
\* elements to the slots that share a Parameter.
C30_RoundTripLastSlot ==
    (sop.name = "bulk") =>
        /\ BulkGet(pars, sop.attr)
               = [i \in 1..Len(slots) |-> LimitOf(sop.given[LastSlotOf(i)])]
        /\ (BulkGet(pars, sop.attr) = sop.given)
               <=> \A i \in 1..Len(slots) :
                       /\ sop.given[i] # None
                       /\ sop.given[i] = sop.given[LastSlotOf(i)]

\* One Parameter in the first and the last of three slots: the first slot
\* reads back the element given to the last.
C30_Witness ==
    /\ sop.name = "bulk" /\ sop.attr = "value"
    /\ slots = <<1, 2, 1>>
    /\ sop.given = <<R(2), R(3), R(4)>>
    /\ BulkGet(pars, "value") = <<R(4), R(3), R(4)>>
====
